---- MODULE Spec2Model ----
(***************************************************************************)
(* Batch job processing engine of backend/services/batch_service.py:       *)
(* BatchProcessingService with its PriorityQueue of BatchJob objects, the  *)
(* dispatch loop that runs in the worker thread (_process_queue /          *)
(* _process_job), and the coroutines create_*_batch and cancel_batch that  *)
(* run on the event-loop thread.  The two threads share the BatchJob       *)
(* objects, the queue and the batch table without any lock, so every       *)
(* access to a shared field is a step of its own.                          *)
(***************************************************************************)
EXTENDS Integers, Sequences, FiniteSets, TLC

(* ---------------------------------------------------------------- bounds *)
\* number of create_*_batch calls explored
MaxBatches == 2
\* length of the request list of one create_*_batch call
MaxBatchJobs == 2
\* BatchJob objects created over all calls
MaxJobs == 2
\* number of cancel_batch calls on an existing batch explored
MaxCancels == 1
\* items put on the stand-alone PriorityQueue of SpecQueue
MaxQueue == 4

(* ------------------------------------------------------------- constants *)
\* class JobPriority(Enum)
LOW == 3
MEDIUM == 2
HIGH == 1
URGENT == 0
JobPriority == {URGENT, HIGH, MEDIUM, LOW}

\* class JobStatus(Enum)
PENDING == "pending"
PROCESSING == "processing"
COMPLETED == "completed"
FAILED == "failed"
CANCELLED == "cancelled"
JobStatus == {PENDING, PROCESSING, COMPLETED, FAILED, CANCELLED}

\* BatchJob.max_retries: int = 3
DefaultMaxRetries == 3

\* the three job types the create_*_batch coroutines produce
JobTypes == {"video", "audio", "translation"}

\* create_video_batch, create_audio_batch and create_translation_batch differ
\* only in job_type; the k-th call explored is to them in turn
CallType(k) == <<"video", "audio", "translation">>[((k - 1) % 3) + 1]

\* the wall clock, in days since the service was first constructed
VARIABLE today

\* An Optional value is a tuple of at most one element: Python's None is the
\* empty tuple, and a datetime is <<day>>.  datetime.now():
None == <<>>
Now == <<today>>

\* datetime.isoformat() and datetime.fromisoformat(): the string written for a
\* datetime, and the datetime read back from such a string
IsoFormat(t) == <<"isoformat", t[1]>>
FromIsoFormat(s) == <<s[2]>>

\* the opaque request payloads of one call: request i of every call
RequestPayloads == <<"req0", "req1", "req2", "req3", "req4">>

Min(a, b) == IF a < b THEN a ELSE b

(* --------------------------------------------------------------- BatchJob *)
\* BatchJob(id=..., job_type=..., input_data=request, priority=priority,
\*          status=JobStatus.PENDING, created_at=now) with the dataclass defaults
NewBatchJob(batch_id, job_type, i, request, priority) ==
    [ id          |-> <<batch_id, job_type, i>>,
      job_type    |-> job_type,
      input_data  |-> request,
      priority    |-> priority,
      status      |-> PENDING,
      created_at  |-> Now,
      started_at  |-> None,
      completed_at |-> None,
      progress    |-> 0,
      result      |-> None,
      error       |-> None,
      retry_count |-> 0,
      max_retries |-> DefaultMaxRetries ]

\* the comparison the other way round
JobLtReversed(a, b) == a.priority > b.priority

\* the comparison by age: the job created first goes first
JobLtByAge(a, b) == a.created_at[1] < b.created_at[1]

\* BatchJob.__lt__: return self.priority.value < other.priority.value
JobLt(a, b) == a.priority < b.priority

\* batch_id = job.id.split('_')[0]
BatchIdOf(job) == job.id[1]

(* ------------------------------------------------------------------ heapq *)
(* queue.PriorityQueue keeps its items in a list ordered by heapq; put is  *)
(* heappush and get is heappop.  Positions are Python's (0-based); the     *)
(* heap holds indices into the table js of BatchJob objects and compares   *)
(* them with BatchJob.__lt__.                                              *)
At(heap, pos) == heap[pos + 1]
SetAt(heap, pos, x) == [heap EXCEPT ![pos + 1] = x]

RECURSIVE SiftdownLoop(_, _, _, _, _)
SiftdownLoop(js, heap, startpos, pos, newitem) ==
    IF pos > startpos
    THEN LET parentpos == (pos - 1) \div 2
             parent == At(heap, parentpos)
         IN  IF JobLt(js[newitem], js[parent])
             THEN SiftdownLoop(js, SetAt(heap, pos, parent), startpos, parentpos, newitem)
             ELSE SetAt(heap, pos, newitem)
    ELSE SetAt(heap, pos, newitem)

\* heapq._siftdown(heap, startpos, pos)
Siftdown(js, heap, startpos, pos) ==
    SiftdownLoop(js, heap, startpos, pos, At(heap, pos))

RECURSIVE SiftupLoop(_, _, _, _)
\* the while loop of heapq._siftup: yields <<heap, pos>> at its exit
SiftupLoop(js, heap, pos, endpos) ==
    LET childpos == 2 * pos + 1
        rightpos == childpos + 1
        chosen == IF rightpos < endpos
                     /\ ~JobLt(js[At(heap, childpos)], js[At(heap, rightpos)])
                  THEN rightpos ELSE childpos
    IN  IF childpos < endpos
        THEN SiftupLoop(js, SetAt(heap, pos, At(heap, chosen)), chosen, endpos)
        ELSE <<heap, pos>>

\* heapq._siftup(heap, pos)
Siftup(js, heap, pos) ==
    LET newitem == At(heap, pos)
        r == SiftupLoop(js, heap, pos, Len(heap))
    IN  Siftdown(js, SetAt(r[1], r[2], newitem), pos, r[2])

\* PriorityQueue._put: heappush(self.queue, item)
HeapPush(js, heap, item) ==
    Siftdown(js, Append(heap, item), 0, Len(heap))

\* the get that leaves the item on the heap
HeapPopLeavesItem(js, heap) == <<heap[1], heap>>

\* PriorityQueue._get: heappop(self.queue); yields <<item, heap>>
HeapPop(js, heap) ==
    LET lastelt == heap[Len(heap)]
        rest == SubSeq(heap, 1, Len(heap) - 1)
    IN  IF rest /= <<>>
        THEN <<rest[1], Siftup(js, SetAt(rest, 0, lastelt), 0)>>
        ELSE <<lastelt, rest>>

(* ------------------------------------------------------------------ state *)
VARIABLES
    jobs,            \* every BatchJob object created so far, by object identity
    batch_requests,  \* self.batch_requests: batch id -> BatchRequest
    job_queue,       \* self.job_queue: the heap list of the PriorityQueue
    active_jobs,     \* self.active_jobs (keys)
    completed_jobs,  \* self.completed_jobs (keys)
    stats,           \* self.stats
    disk,            \* batch_requests.json (file), the thread whose save may
                     \* have overlapped the last one, and whether the file
                     \* can be written
    nbatches,        \* batch ids handed out so far (uuid4 is fresh each time)
    wpc, wjob,       \* worker thread: position in _process_queue/_process_job, its job
    mpc, mcall,      \* event-loop thread: position in the running coroutine, its locals
    cancel_ret,      \* <<value returned by the last cancel_batch call>>, <<>> before any
    hist             \* history: each job's priority at creation, its re-queues and
                     \* executor runs so far; the cancel_batch calls and restarts
                     \* so far

vars == <<jobs, batch_requests, job_queue, active_jobs, completed_jobs, stats,
          disk, nbatches, wpc, wjob, mpc, mcall, cancel_ret, hist>>

\* a PriorityQueue of BatchJob objects on its own, with one consumer
VARIABLES
    pq_jobs,         \* the BatchJob objects put so far, in put order
    pq_heap,         \* the heap list of the queue
    pq_out,          \* the jobs got so far, in get order
    pq_late          \* a put has followed a get
pqvars == <<pq_jobs, pq_heap, pq_out, pq_late>>

\* the environment of the service and the calls that only read its state
VARIABLES
    is_running,      \* self.is_running
    status_ret,      \* <<value returned by the last get_batch_status call>>
    stats_ret,       \* <<value returned by the last get_service_stats call>>
    list_ret         \* <<arguments and value of the last list_batches call>>
queryvars == <<status_ret, stats_ret, list_ret>>

\* the dispatch threads
VARIABLES
    max_workers,     \* self.max_workers
    worker_thread,   \* self.worker_thread: 0 is the thread __init__ started,
                     \* k > 0 the thread more_loops[k]
    more_loops       \* the threads later calls of start_processing started:
                     \* position in _process_queue/_process_job and job of each
poolvars == <<max_workers, worker_thread, more_loops>>

envvars == <<today, is_running, queryvars, poolvars>>

\* what the steps of the service itself leave alone
othervars == <<pqvars, envvars>>

allvars == <<vars, pqvars, envvars>>

NoCall == [op |-> "idle"]

\* BatchRequest(id=batch_id, jobs=jobs, total_jobs=len(jobs)) with the dataclass
\* defaults completed_jobs = 0, failed_jobs = 0, status = JobStatus.PENDING,
\* actual_duration = None
NewBatchRequest(batch_id, job_ids) ==
    [ id             |-> batch_id,
      jobs           |-> job_ids,
      created_at     |-> Now,
      total_jobs     |-> Len(job_ids),
      completed_jobs |-> 0,
      failed_jobs    |-> 0,
      status         |-> PENDING,
      actual_duration |-> None ]

\* sum(1 for j in batch_request.jobs if j.status == status)
CountStatus(js, job_ids, status) ==
    Cardinality({i \in DOMAIN job_ids : js[job_ids[i]].status = status})

\* the status with any failure reported as a failed batch
TerminalBatchStatusAnyFailure(completed, failed) ==
    IF failed = 0 THEN COMPLETED ELSE FAILED

\* the status chosen once completed_jobs + failed_jobs == total_jobs
TerminalBatchStatus(completed, failed) ==
    IF failed = 0 THEN COMPLETED
    ELSE IF completed = 0 THEN FAILED
    ELSE COMPLETED

\* max(times) and min(times) of a non-empty list of datetimes
MaxTime(times) == CHOOSE t \in times : \A u \in times : u[1] <= t[1]
MinTime(times) == CHOOSE t \in times : \A u \in times : t[1] <= u[1]

\* "Calculate actual duration": start_times and end_times are the started_at
\* and completed_at that are set; (max(end_times) - min(start_times))
\* .total_seconds() when neither list is empty, in days, and the value the
\* batch holds otherwise
ActualDuration(js, req) ==
    LET start_times == {js[req.jobs[i]].started_at : i \in DOMAIN req.jobs} \ {None}
        end_times == {js[req.jobs[i]].completed_at : i \in DOMAIN req.jobs} \ {None}
    IN  IF start_times /= {} /\ end_times /= {}
        THEN <<MaxTime(end_times)[1] - MinTime(start_times)[1]>>
        ELSE req.actual_duration

\* the counters with cancelled jobs counted as failed
BatchCountsWithCancelled(js, req) ==
    <<CountStatus(js, req.jobs, COMPLETED),
      CountStatus(js, req.jobs, FAILED) + CountStatus(js, req.jobs, CANCELLED)>>

\* the counters with every job that is not Completed counted as failed
BatchCountsFailedIsNotCompleted(js, req) ==
    <<CountStatus(js, req.jobs, COMPLETED),
      Len(req.jobs) - CountStatus(js, req.jobs, PENDING)>>

\* the counters _update_batch_status stores: <<completed_jobs, failed_jobs>>
BatchCounts(js, req) ==
    <<CountStatus(js, req.jobs, COMPLETED), CountStatus(js, req.jobs, FAILED)>>

\* the aggregator that leaves the status of a cancelled batch alone
UpdateBatchStatusKeepsCancelled(br, js, job) ==
    LET batch_id == BatchIdOf(job) IN
    IF batch_id \notin DOMAIN br THEN br
    ELSE LET req == br[batch_id]
             counts == BatchCounts(js, req)
         IN  [br EXCEPT ![batch_id] =
                [req EXCEPT !.completed_jobs = counts[1],
                            !.failed_jobs = counts[2],
                            !.status = IF counts[1] + counts[2] = req.total_jobs
                                          /\ req.status /= CANCELLED
                                       THEN TerminalBatchStatus(counts[1], counts[2])
                                       ELSE req.status,
                            !.actual_duration =
                                       IF counts[1] + counts[2] = req.total_jobs
                                       THEN ActualDuration(js, req)
                                       ELSE req.actual_duration]]

\* _update_batch_status(job): the batch table after the call
UpdateBatchStatus(br, js, job) ==
    LET batch_id == BatchIdOf(job) IN
    IF batch_id \notin DOMAIN br THEN br
    ELSE LET req == br[batch_id]
             counts == BatchCounts(js, req)
             completed == counts[1]
             failed == counts[2]
         IN  [br EXCEPT ![batch_id] =
                [req EXCEPT !.completed_jobs = completed,
                            !.failed_jobs = failed,
                            !.status = IF completed + failed = req.total_jobs
                                       THEN TerminalBatchStatus(completed, failed)
                                       ELSE req.status,
                            !.actual_duration =
                                       IF completed + failed = req.total_jobs
                                       THEN ActualDuration(js, req)
                                       ELSE req.actual_duration]]

\* get_service_stats: 'active_batches'
ActiveBatches(br) == Cardinality({b \in DOMAIN br : br[b].status = PROCESSING})

\* get_batch_status: 'overall_progress', the mean of the jobs' progress.  Every
\* progress is 0 or 100, and the quotient is kept to its integer part, which
\* is 100 exactly when the float quotient is 100.0
OverallProgress(br, js, b) ==
    LET req == br[b]
        RECURSIVE Sum(_)
        Sum(n) == IF n = 0 THEN 0 ELSE Sum(n - 1) + js[req.jobs[n]].progress
    IN  IF req.total_jobs > 0 THEN Sum(Len(req.jobs)) \div req.total_jobs ELSE 0

(* ------------------------------------------------------------ persistence *)
(* Enum members are written as their values, which is how the model holds   *)
(* them; JobPriority(value) and JobStatus(value) look the member up.        *)
JobPriorityOf(value) == CHOOSE p \in JobPriority : p = value
JobStatusOf(value) == CHOOSE s \in JobStatus : s = value

\* the batch table with each batch's BatchJob objects in place of references
BatchTable(br, js) ==
    [b \in DOMAIN br |->
        [br[b] EXCEPT !.jobs = [i \in DOMAIN br[b].jobs |-> js[br[b].jobs[i]]]]]

\* job_data = asdict(job) with created_at, started_at, completed_at written as
\* ISO strings (the latter two only when set), priority and status as values
JobData(job) ==
    [job EXCEPT !.created_at = IsoFormat(@),
                !.started_at = IF @ /= None THEN IsoFormat(@) ELSE @,
                !.completed_at = IF @ /= None THEN IsoFormat(@) ELSE @]

\* batch_data = asdict(batch_request) with created_at as ISO string, status as
\* value and 'jobs' the list of job_data
BatchData(req, js) ==
    [req EXCEPT !.created_at = IsoFormat(@),
                !.jobs = [i \in DOMAIN req.jobs |-> JobData(js[req.jobs[i]])]]

\* _save_persistent_data: the data json.dump writes
Snapshot(br, js, st) ==
    [ batch_requests |-> [b \in DOMAIN br |-> BatchData(br[b], js)],
      stats |-> st ]

\* the job read back with started_at left as the string of the file
LoadJobKeepsStartedAt(job_data) ==
    [job_data EXCEPT !.created_at = FromIsoFormat(@),
                     !.completed_at = IF @ /= None THEN FromIsoFormat(@) ELSE @,
                     !.priority = JobPriorityOf(@),
                     !.status = JobStatusOf(@)]

\* job = BatchJob(**job_data) and the conversions that follow it
LoadJob(job_data) ==
    [job_data EXCEPT !.created_at = FromIsoFormat(@),
                     !.started_at = IF @ /= None THEN FromIsoFormat(@) ELSE @,
                     !.completed_at = IF @ /= None THEN FromIsoFormat(@) ELSE @,
                     !.priority = JobPriorityOf(@),
                     !.status = JobStatusOf(@)]

\* the loop "for batch_id, batch_data in data.get('batch_requests', {}).items()"
\* over the batches todo: <<batch table, BatchJob objects>> after it.  Each
\* batch gets new BatchJob objects, referred to by their place in the table.
RECURSIVE LoadBatches(_, _, _, _)
LoadBatches(data, todo, br, js) ==
    IF todo = {} THEN <<br, js>>
    ELSE LET b == CHOOSE x \in todo : \A y \in todo : x <= y
             n == Len(js)
             loaded == [i \in DOMAIN data[b].jobs |-> LoadJob(data[b].jobs[i])]
             req == [data[b] EXCEPT !.created_at = FromIsoFormat(@),
                                    !.jobs = [i \in DOMAIN data[b].jobs |-> n + i],
                                    !.status = JobStatusOf(@)]
         IN  LoadBatches(data, todo \ {b}, br @@ (b :> req), js \o loaded)

(* batch_requests.json is absent, or holds a complete JSON document         *)
(* ("json"), or is empty because it was opened for writing and nothing was  *)
(* written ("truncated"), or holds bytes of an unfinished or of more than   *)
(* one json.dump ("torn").  A document carries, for the claims, the batch   *)
(* table it was made from ("of").                                           *)
NoFile == [kind |-> "absent"]
TruncatedFile == [kind |-> "truncated"]
TornFile == [kind |-> "torn"]
JsonFile(br, js, st) ==
    [kind |-> "json", data |-> Snapshot(br, js, st), of |-> BatchTable(br, js)]

(* _save_persistent_data() by a thread, from the preparation of the data to *)
(* the close of the file: every state the disk can be left in.  Nothing      *)
(* keeps the two threads from being inside it at once.  overlapped names the *)
(* thread, if any, that was about to save when the other thread saved: both  *)
(* file objects write from offset 0, so the later of the two saves leaves    *)
(* its own data or bytes of both.  skipped: the iteration over               *)
(* batch_requests raised (the batch table changed size), the exception is    *)
(* caught and nothing is written.  While the file cannot be written (no      *)
(* permission, no space) open() raises and the file is as it was, or          *)
(* json.dump raises and leaves the file empty or partly written; the          *)
(* exception is caught and logged.                                            *)

\* the save that never writes again once a write has failed
SavePersistentDataGivesUp(d, thread, other, other_saving, skipped, br, js, st) ==
    LET files == IF ~d.writable THEN {TruncatedFile}
                 ELSE IF d.file.kind \in {"truncated", "torn"} THEN {d.file}
                 ELSE {JsonFile(br, js, st)}
    IN  {[file |-> f, overlapped |-> IF other_saving THEN other ELSE "none",
          writable |-> d.writable] : f \in files}

SavePersistentData(d, thread, other, other_saving, skipped, br, js, st) ==
    LET mine == JsonFile(br, js, st)
        files == IF ~d.writable THEN {d.file, TruncatedFile, TornFile}
                 ELSE (IF d.overlapped = thread THEN {mine, TornFile} ELSE {mine})
                          \cup (IF skipped THEN {d.file} ELSE {})
    IN  {[file |-> f, overlapped |-> IF other_saving THEN other ELSE "none",
          writable |-> d.writable] : f \in files}

\* _load_persistent_data on the file: <<batch table, BatchJob objects>>.  No
\* file, and a file json.load raises on, leave the batch table empty.
LoadPersistentData(file) ==
    IF file.kind /= "json" THEN << <<>>, <<>> >>
    ELSE LoadBatches(file.data.batch_requests, DOMAIN file.data.batch_requests,
                     <<>>, <<>>)

\* BatchProcessingService.__init__(max_workers: int = 4)
DefaultMaxWorkers == 4

\* the state __init__(max_workers) leaves when there is no batch_requests.json
InitService(workers) ==
    /\ jobs = <<>>
    /\ batch_requests = <<>>
    /\ job_queue = <<>>
    /\ active_jobs = {}
    /\ completed_jobs = {}
    /\ stats = [total_jobs_processed |-> 0, total_jobs_failed |-> 0,
                queue_size |-> 0, active_workers |-> 0]
    /\ disk = [file |-> NoFile, overlapped |-> "none", writable |-> TRUE]
    /\ nbatches = 0
    /\ wpc = "get"
    /\ wjob = 0
    /\ mpc = "idle"
    /\ mcall = NoCall
    /\ cancel_ret = <<>>
    /\ hist = [created_priority |-> <<>>, requeues |-> <<>>, executions |-> <<>>,
               cancel_calls |-> 0, restarts |-> 0]
    /\ pq_jobs = <<>>
    /\ pq_heap = <<>>
    /\ pq_out = <<>>
    /\ pq_late = FALSE
    /\ today = 0
    /\ is_running = TRUE
    /\ status_ret = <<>>
    /\ stats_ret = <<>>
    /\ list_ret = <<>>
    /\ max_workers = workers
    /\ worker_thread = 0
    /\ more_loops = <<>>

Init == InitService(DefaultMaxWorkers)

(* ------------------------------------------- event-loop thread: submission *)
(* create_video_batch, create_audio_batch and create_translation_batch are  *)
(* the same code up to job_type.  The coroutine never awaits, so no other   *)
(* coroutine runs inside it, but the worker thread does: each               *)
(* self.job_queue.put(job) is a step, and the batch enters the batch table  *)
(* only after the last put.                                                 *)

\* batch_id = str(uuid.uuid4()); jobs = []
CreateBatchStart(job_type, priority, n) ==
    /\ mpc = "idle"
    /\ nbatches < MaxBatches
    /\ Len(jobs) + n <= MaxJobs
    /\ nbatches' = nbatches + 1
    /\ mcall' = [op |-> "create", batch_id |-> nbatches + 1, job_type |-> job_type,
                 priority |-> priority, n |-> n, jobs |-> <<>>]
    /\ mpc' = "put"
    /\ UNCHANGED <<jobs, batch_requests, job_queue, active_jobs, completed_jobs,
                   stats, disk, wpc, wjob, cancel_ret, hist>>

\* one iteration of "for i, request in enumerate(requests)": build the job,
\* jobs.append(job), self.job_queue.put(job)
CreateBatchPut ==
    /\ mpc = "put"
    /\ LET i == Len(mcall.jobs)
           job == NewBatchJob(mcall.batch_id, mcall.job_type, i,
                              RequestPayloads[i + 1], mcall.priority)
           k == Len(jobs) + 1
           js == Append(jobs, job)
       IN  /\ jobs' = js
           /\ job_queue' = HeapPush(js, job_queue, k)
           /\ mcall' = [mcall EXCEPT !.jobs = Append(@, k)]
           /\ mpc' = IF i + 1 = mcall.n THEN "register" ELSE "put"
           /\ hist' = [hist EXCEPT !.created_priority = Append(@, mcall.priority),
                                   !.requeues = Append(@, 0),
                                   !.executions = Append(@, 0)]
    /\ UNCHANGED <<batch_requests, active_jobs, completed_jobs, stats, disk,
                   nbatches, wpc, wjob, cancel_ret>>

\* a dispatch thread other than the first is about to run the finally clause
MoreLoopsAboutToSave == \E k \in DOMAIN more_loops : more_loops[k].pc = "finally"

\* a dispatch thread is about to run the finally clause, which saves
WorkerAboutToSave == wpc = "finally" \/ MoreLoopsAboutToSave

\* self.batch_requests[batch_id] = BatchRequest(...); queue_size;
\* _save_persistent_data(); return batch_id
CreateBatchRegister ==
    /\ mpc = "register"
    /\ LET br == batch_requests @@
                 (mcall.batch_id :> NewBatchRequest(mcall.batch_id, mcall.jobs))
           st == [stats EXCEPT !.queue_size = Len(job_queue)]
       IN  /\ batch_requests' = br
           /\ stats' = st
           /\ disk' \in SavePersistentData(disk, "loop", "worker", WorkerAboutToSave,
                                           FALSE, br, jobs, st)
    /\ mpc' = "idle"
    /\ mcall' = NoCall
    /\ UNCHANGED <<jobs, job_queue, active_jobs, completed_jobs, nbatches, wpc,
                   wjob, cancel_ret, hist>>

(* ------------------------------------------- event-loop thread: cancel_batch *)
\* if job.status == JobStatus.PENDING
CancelEligible(job) == job.status = PENDING

\* the cancel_batch that reports success for an unknown batch
CancelBatchMissingReturnsTrue(batch_id) ==
    /\ mpc = "idle"
    /\ batch_id \notin DOMAIN batch_requests
    /\ cancel_ret' = <<TRUE>>
    /\ UNCHANGED <<jobs, batch_requests, job_queue, active_jobs, completed_jobs,
                   stats, disk, nbatches, wpc, wjob, mpc, mcall, hist>>

\* if batch_id not in self.batch_requests: return False
CancelBatchMissing(batch_id) ==
    /\ mpc = "idle"
    /\ batch_id \notin DOMAIN batch_requests
    /\ cancel_ret' = <<FALSE>>
    /\ UNCHANGED <<jobs, batch_requests, job_queue, active_jobs, completed_jobs,
                   stats, disk, nbatches, wpc, wjob, mpc, mcall, hist>>

\* batch_request = self.batch_requests[batch_id]; enter the for loop
CancelBatchStart(batch_id) ==
    /\ mpc = "idle"
    /\ batch_id \in DOMAIN batch_requests
    /\ hist.cancel_calls < MaxCancels
    /\ mcall' = [op |-> "cancel", batch_id |-> batch_id, idx |-> 1]
    /\ mpc' = "cancel_loop"
    /\ hist' = [hist EXCEPT !.cancel_calls = @ + 1]
    /\ UNCHANGED <<jobs, batch_requests, job_queue, active_jobs, completed_jobs,
                   stats, disk, nbatches, wpc, wjob, cancel_ret>>

\* "for job in batch_request.jobs: if job.status == JobStatus.PENDING": the
\* read of job.status
CancelBatchCheck ==
    /\ mpc = "cancel_loop"
    /\ mcall.idx <= Len(batch_requests[mcall.batch_id].jobs)
    /\ LET j == batch_requests[mcall.batch_id].jobs[mcall.idx]
       IN  IF CancelEligible(jobs[j])
           THEN /\ mpc' = "cancel_set"
                /\ mcall' = mcall
           ELSE /\ mpc' = "cancel_loop"
                /\ mcall' = [mcall EXCEPT !.idx = @ + 1]
    /\ UNCHANGED <<jobs, batch_requests, job_queue, active_jobs, completed_jobs,
                   stats, disk, nbatches, wpc, wjob, cancel_ret, hist>>

\* job.status = JobStatus.CANCELLED: the write
CancelBatchSet ==
    /\ mpc = "cancel_set"
    /\ LET j == batch_requests[mcall.batch_id].jobs[mcall.idx]
       IN  jobs' = [jobs EXCEPT ![j].status = CANCELLED]
    /\ mcall' = [mcall EXCEPT !.idx = @ + 1]
    /\ mpc' = "cancel_loop"
    /\ UNCHANGED <<batch_requests, job_queue, active_jobs, completed_jobs, stats,
                   disk, nbatches, wpc, wjob, cancel_ret, hist>>

\* the cancel_batch that drops the batch from the batch table
CancelBatchFinishDropsBatch ==
    /\ mpc = "cancel_loop"
    /\ mcall.idx > Len(batch_requests[mcall.batch_id].jobs)
    /\ batch_requests' =
          [b \in DOMAIN batch_requests \ {mcall.batch_id} |-> batch_requests[b]]
    /\ cancel_ret' = <<TRUE>>
    /\ mpc' = "idle"
    /\ mcall' = NoCall
    /\ UNCHANGED <<jobs, job_queue, active_jobs, completed_jobs, stats, disk,
                   nbatches, wpc, wjob, hist>>

\* after the loop: batch_request.status = JobStatus.CANCELLED;
\* _save_persistent_data(); return True
CancelBatchFinish ==
    /\ mpc = "cancel_loop"
    /\ mcall.idx > Len(batch_requests[mcall.batch_id].jobs)
    /\ LET br == [batch_requests EXCEPT ![mcall.batch_id].status = CANCELLED]
       IN  /\ batch_requests' = br
           /\ disk' \in SavePersistentData(disk, "loop", "worker", WorkerAboutToSave,
                                           FALSE, br, jobs, stats)
    /\ cancel_ret' = <<TRUE>>
    /\ mpc' = "idle"
    /\ mcall' = NoCall
    /\ UNCHANGED <<jobs, job_queue, active_jobs, completed_jobs, stats, nbatches,
                   wpc, wjob, hist>>

(* ----------------------------------------------------------- worker thread *)
(* _process_queue runs in the one thread start_processing creates; wpc is   *)
(* the statement it is about to execute.                                    *)

\* if job.status == JobStatus.CANCELLED: continue
IsCancelled(job) == job.status = CANCELLED

\* job.status = JobStatus.PROCESSING; job.started_at = datetime.now()
MarkProcessing(job) == [job EXCEPT !.status = PROCESSING, !.started_at = Now]

\* job.status = COMPLETED; job.completed_at = now; job.result = result;
\* job.progress = 100.0
MarkCompleted(job) ==
    [job EXCEPT !.status = COMPLETED, !.completed_at = Now,
                !.result = <<"result">>, !.progress = 100]

\* except: job.status = FAILED; job.error = str(e); job.completed_at = now
MarkFailed(job) ==
    [job EXCEPT !.status = FAILED, !.error = <<"error">>, !.completed_at = Now]

\* the test made on the count after the increment
ShouldRetryAfterIncrement(job) == job.retry_count + 1 < job.max_retries

\* the test off by one
ShouldRetryInclusive(job) == job.retry_count <= job.max_retries

\* if job.retry_count < job.max_retries
ShouldRetry(job) == job.retry_count < job.max_retries

\* the demotion without its cap
DemotedPriorityUncapped(priority) == priority + 1

\* JobPriority(min(job.priority.value + 1, JobPriority.LOW.value))
DemotedPriority(priority) == Min(priority + 1, LOW)

\* the reset that forgets to clear the error and the timestamps
ResetForRetryKeepsError(job) ==
    [job EXCEPT !.retry_count = @ + 1, !.status = PENDING,
                !.priority = DemotedPriority(@)]

\* the retry branch up to the put: retry_count += 1; status = PENDING;
\* started_at = completed_at = error = None; priority demoted
ResetForRetry(job) ==
    [job EXCEPT !.retry_count = @ + 1, !.status = PENDING, !.started_at = None,
                !.completed_at = None, !.error = None,
                !.priority = DemotedPriority(@)]

\* job = self.job_queue.get(timeout=1.0); on queue.Empty the loop continues
\* and nothing changes
WorkerGet ==
    /\ wpc = "get"
    /\ job_queue /= <<>>
    /\ LET r == HeapPop(jobs, job_queue)
       IN  /\ wjob' = r[1]
           /\ job_queue' = r[2]
    /\ wpc' = "check"
    /\ UNCHANGED <<jobs, batch_requests, active_jobs, completed_jobs, stats, disk,
                   nbatches, mpc, mcall, cancel_ret, hist>>

\* "while self.is_running": the position of the worker after the test, inside
\* job_queue.get when the flag is set and past the loop when it is not
LoopTest == IF is_running THEN "get" ELSE "stopped"

\* if job.status == JobStatus.CANCELLED: continue
WorkerCheck ==
    /\ wpc = "check"
    /\ IF IsCancelled(jobs[wjob])
       THEN /\ wpc' = LoopTest
            /\ wjob' = 0
       ELSE /\ wpc' = "mark"
            /\ wjob' = wjob
    /\ UNCHANGED <<jobs, batch_requests, job_queue, active_jobs, completed_jobs,
                   stats, disk, nbatches, mpc, mcall, cancel_ret, hist>>

\* _process_job: status = PROCESSING; started_at; self.active_jobs[job.id] = job
WorkerMark ==
    /\ wpc = "mark"
    /\ jobs' = [jobs EXCEPT ![wjob] = MarkProcessing(@)]
    /\ active_jobs' = active_jobs \cup {wjob}
    /\ wpc' = "exec"
    /\ UNCHANGED <<batch_requests, job_queue, completed_jobs, stats, disk, nbatches,
                   wjob, mpc, mcall, cancel_ret, hist>>

\* the task executor (_process_video_job, ...) returns: the job is marked
\* completed and total_jobs_processed is incremented
WorkerExecReturns ==
    /\ wpc = "exec"
    /\ jobs' = [jobs EXCEPT ![wjob] = MarkCompleted(@)]
    /\ stats' = [stats EXCEPT !.total_jobs_processed = @ + 1]
    /\ hist' = [hist EXCEPT !.executions[wjob] = @ + 1]
    /\ wpc' = "finally"
    /\ UNCHANGED <<batch_requests, job_queue, active_jobs, completed_jobs, disk,
                   nbatches, wjob, mpc, mcall, cancel_ret>>

\* the failure that marks every job of the batch failed
WorkerExecRaisesFailsSiblings ==
    /\ wpc = "exec"
    /\ jobs' = [j \in DOMAIN jobs |->
                  IF BatchIdOf(jobs[j]) = BatchIdOf(jobs[wjob])
                  THEN MarkFailed(jobs[j]) ELSE jobs[j]]
    /\ hist' = [hist EXCEPT !.executions[wjob] = @ + 1]
    /\ wpc' = "retry"
    /\ UNCHANGED <<batch_requests, job_queue, active_jobs, completed_jobs, stats,
                   disk, nbatches, wjob, mpc, mcall, cancel_ret>>

\* the task executor raises: the first three statements of the except clause
WorkerExecRaises ==
    /\ wpc = "exec"
    /\ jobs' = [jobs EXCEPT ![wjob] = MarkFailed(@)]
    /\ hist' = [hist EXCEPT !.executions[wjob] = @ + 1]
    /\ wpc' = "retry"
    /\ UNCHANGED <<batch_requests, job_queue, active_jobs, completed_jobs, stats,
                   disk, nbatches, wjob, mpc, mcall, cancel_ret>>

\* the retry logic that counts every failure, retried or not
WorkerRetryCountsEveryFailure ==
    /\ wpc = "retry"
    /\ stats' = [stats EXCEPT !.total_jobs_failed = @ + 1]
    /\ IF ShouldRetry(jobs[wjob])
       THEN LET js == [jobs EXCEPT ![wjob] = ResetForRetry(@)]
            IN  /\ jobs' = js
                /\ job_queue' = HeapPush(js, job_queue, wjob)
                /\ hist' = [hist EXCEPT !.requeues[wjob] = @ + 1]
       ELSE UNCHANGED <<jobs, job_queue, hist>>
    /\ wpc' = "finally"
    /\ UNCHANGED <<batch_requests, active_jobs, completed_jobs, disk, nbatches,
                   wjob, mpc, mcall, cancel_ret>>

\* the retry logic of the except clause
WorkerRetry ==
    /\ wpc = "retry"
    /\ IF ShouldRetry(jobs[wjob])
       THEN LET js == [jobs EXCEPT ![wjob] = ResetForRetry(@)]
            IN  /\ jobs' = js
                /\ job_queue' = HeapPush(js, job_queue, wjob)
                /\ hist' = [hist EXCEPT !.requeues[wjob] = @ + 1]
                /\ stats' = stats
       ELSE /\ stats' = [stats EXCEPT !.total_jobs_failed = @ + 1]
            /\ UNCHANGED <<jobs, job_queue, hist>>
    /\ wpc' = "finally"
    /\ UNCHANGED <<batch_requests, active_jobs, completed_jobs, disk, nbatches,
                   wjob, mpc, mcall, cancel_ret>>

\* the event-loop thread is about to run the last step of a coroutine, which
\* saves
LoopAboutToSave ==
    \/ mpc = "register"
    \/ mpc = "cancel_loop" /\ mcall.idx > Len(batch_requests[mcall.batch_id].jobs)
    \/ mpc = "cleanup"

\* the event-loop thread is about to insert a batch into batch_requests or to
\* delete batches from it
LoopChangesBatchTable ==
    \/ mpc = "register"
    \/ mpc = "cleanup" /\ mcall.to_remove /= {}

\* the finally clause: active_jobs / completed_jobs, _update_batch_status(job),
\* queue_size, active_workers, _save_persistent_data(); then
\* self.job_queue.task_done() and the test of the next iteration of the loop.
\* The save is skipped when the event-loop thread inserts into batch_requests
\* or deletes from it while the save iterates over it.
WorkerFinally ==
    /\ wpc = "finally"
    /\ LET act == active_jobs \ {wjob}
           br == UpdateBatchStatus(batch_requests, jobs, jobs[wjob])
           st == [stats EXCEPT !.queue_size = Len(job_queue),
                               !.active_workers = Cardinality(act)]
       IN  /\ active_jobs' = act
           /\ completed_jobs' = completed_jobs \cup {wjob}
           /\ batch_requests' = br
           /\ stats' = st
           /\ disk' \in SavePersistentData(disk, "worker",
                                           IF MoreLoopsAboutToSave THEN "worker"
                                           ELSE "loop",
                                           LoopAboutToSave \/ MoreLoopsAboutToSave,
                                           LoopChangesBatchTable, br, jobs, st)
    /\ wpc' = LoopTest
    /\ wjob' = 0
    /\ UNCHANGED <<jobs, job_queue, nbatches, mpc, mcall, cancel_ret, hist>>

(* ---------------------------------------------------------- specification *)
Next ==
    \/ \E priority \in JobPriority, n \in 1..MaxBatchJobs :
           CreateBatchStart(CallType(nbatches + 1), priority, n) /\ UNCHANGED othervars
    \/ CreateBatchPut /\ UNCHANGED othervars
    \/ CreateBatchRegister /\ UNCHANGED othervars
    \/ \E batch_id \in 1..MaxBatches : CancelBatchMissing(batch_id) /\ UNCHANGED othervars
    \/ \E batch_id \in 1..MaxBatches : CancelBatchStart(batch_id) /\ UNCHANGED othervars
    \/ CancelBatchCheck /\ UNCHANGED othervars
    \/ CancelBatchSet /\ UNCHANGED othervars
    \/ CancelBatchFinish /\ UNCHANGED othervars
    \/ WorkerGet /\ UNCHANGED othervars
    \/ WorkerCheck /\ UNCHANGED othervars
    \/ WorkerMark /\ UNCHANGED othervars
    \/ WorkerExecReturns /\ UNCHANGED othervars
    \/ WorkerExecRaises /\ UNCHANGED othervars
    \/ WorkerRetry /\ UNCHANGED othervars
    \/ WorkerFinally /\ UNCHANGED othervars

Spec == Init /\ [][Next]_allvars

(* ---------------------------------------------------------------- restart *)
\* restarts explored
MaxRestarts == 1

(* The process is killed and a new BatchProcessingService is constructed on *)
(* the same cache_dir.  A kill that comes while a thread is inside          *)
(* _save_persistent_data leaves the file as open(batch_file, 'w') or an     *)
(* unfinished json.dump left it; everything in memory is lost.  __init__    *)
(* then starts from empty tables, loads the file and starts the worker      *)
(* thread; it puts nothing on job_queue.                                    *)
FilesAfterKill ==
    {disk.file} \cup (IF WorkerAboutToSave \/ LoopAboutToSave
                      THEN {TruncatedFile, TornFile} ELSE {})

Restart ==
    /\ hist.restarts < MaxRestarts
    /\ \E file \in FilesAfterKill :
          LET loaded == LoadPersistentData(file)
          IN  /\ disk' = [file |-> file, overlapped |-> "none",
                           writable |-> disk.writable]
              /\ batch_requests' = loaded[1]
              /\ jobs' = loaded[2]
              /\ hist' = [hist EXCEPT
                            !.created_priority =
                                [j \in DOMAIN loaded[2] |-> loaded[2][j].priority],
                            !.requeues = [j \in DOMAIN loaded[2] |-> 0],
                            !.executions = [j \in DOMAIN loaded[2] |-> 0],
                            !.restarts = @ + 1]
    /\ job_queue' = <<>>
    /\ active_jobs' = {}
    /\ completed_jobs' = {}
    /\ stats' = [total_jobs_processed |-> 0, total_jobs_failed |-> 0,
                 queue_size |-> 0, active_workers |-> 0]
    /\ wpc' = "get"
    /\ wjob' = 0
    /\ mpc' = "idle"
    /\ mcall' = NoCall
    /\ cancel_ret' = <<>>
    /\ UNCHANGED nbatches

\* submissions, the worker with executors that return or raise, and restarts
NextRestart ==
    \/ \E priority \in JobPriority, n \in 1..MaxBatchJobs :
           CreateBatchStart(CallType(nbatches + 1), priority, n) /\ UNCHANGED othervars
    \/ CreateBatchPut /\ UNCHANGED othervars
    \/ CreateBatchRegister /\ UNCHANGED othervars
    \/ WorkerGet /\ UNCHANGED othervars
    \/ WorkerCheck /\ UNCHANGED othervars
    \/ WorkerMark /\ UNCHANGED othervars
    \/ WorkerExecReturns /\ UNCHANGED othervars
    \/ WorkerExecRaises /\ UNCHANGED othervars
    \/ WorkerRetry /\ UNCHANGED othervars
    \/ WorkerFinally /\ UNCHANGED othervars
    \/ Restart /\ UNCHANGED othervars

SpecRestart == Init /\ [][NextRestart]_allvars

(* ------------------------------------------ every executor call raises *)
\* the steps of the worker thread when no executor ever returns
WorkerStepRaising ==
    \/ WorkerGet /\ UNCHANGED othervars
    \/ WorkerCheck /\ UNCHANGED othervars
    \/ WorkerMark /\ UNCHANGED othervars
    \/ WorkerExecRaises /\ UNCHANGED othervars
    \/ WorkerRetry /\ UNCHANGED othervars
    \/ WorkerFinally /\ UNCHANGED othervars

NextAlwaysRaises ==
    \/ \E priority \in JobPriority, n \in 1..MaxBatchJobs :
           CreateBatchStart(CallType(nbatches + 1), priority, n) /\ UNCHANGED othervars
    \/ CreateBatchPut /\ UNCHANGED othervars
    \/ CreateBatchRegister /\ UNCHANGED othervars
    \/ WorkerStepRaising

\* submissions and a worker whose executors always raise, without cancel_batch;
\* the worker thread loops while is_running, so it keeps taking steps
SpecAlwaysRaises ==
    Init /\ [][NextAlwaysRaises]_allvars /\ WF_allvars(WorkerStepRaising)

(* ------------------------------------------ every executor call returns *)
\* the steps of the worker thread when every executor returns a result
WorkerStepReturning ==
    \/ WorkerGet /\ UNCHANGED othervars
    \/ WorkerCheck /\ UNCHANGED othervars
    \/ WorkerMark /\ UNCHANGED othervars
    \/ WorkerExecReturns /\ UNCHANGED othervars
    \/ WorkerFinally /\ UNCHANGED othervars

\* the rest of a create_*_batch coroutine once it has started
SubmissionStep ==
    \/ CreateBatchPut /\ UNCHANGED othervars
    \/ CreateBatchRegister /\ UNCHANGED othervars

NextAlwaysReturns ==
    \/ \E priority \in JobPriority, n \in 1..MaxBatchJobs :
           CreateBatchStart(CallType(nbatches + 1), priority, n) /\ UNCHANGED othervars
    \/ SubmissionStep
    \/ WorkerStepReturning

\* submissions and a worker whose executors always return, without
\* cancel_batch; the worker thread loops while is_running and a coroutine that
\* never awaits runs to its end, so both keep taking steps
SpecAlwaysReturns ==
    Init /\ [][NextAlwaysReturns]_allvars
         /\ WF_allvars(WorkerStepReturning) /\ WF_allvars(SubmissionStep)

(* ------------------------------------------------------------ the clock *)
\* the last day explored
MaxDays == 10

\* the days on which the service is looked at
Days == {0, MaxDays - 1, MaxDays}

\* time passes: datetime.now() is on a later day.  Days go by where the
\* program waits: between two coroutines on the event loop, and with the worker
\* inside job_queue.get or inside a task executor.
Elapse(day) ==
    /\ day > today
    /\ mpc = "idle"
    /\ wpc \in {"get", "exec", "stopped"}
    /\ today' = day
    /\ UNCHANGED <<vars, pqvars, is_running, queryvars, poolvars>>

(* ------------------------------------ event-loop thread: cleanup_old_batches *)
\* cleanup_old_batches(days_old: int = 7)
DefaultDaysOld == 7

\* datetime.now() - timedelta(days=days_old)
CutoffDate(days_old) == today - days_old

\* the test on the age alone
CleanupEligibleWhateverStatus(req, cutoff_date) == req.created_at[1] < cutoff_date

\* batch_request.status in [COMPLETED, FAILED, CANCELLED] and
\* batch_request.created_at < cutoff_date
CleanupEligible(req, cutoff_date) ==
    /\ req.status \in {COMPLETED, FAILED, CANCELLED}
    /\ req.created_at[1] < cutoff_date

\* the loop over self.batch_requests.items() that fills to_remove
ToRemove(br, cutoff_date) ==
    {b \in DOMAIN br : CleanupEligible(br[b], cutoff_date)}

\* for batch_id in to_remove: del self.batch_requests[batch_id]
DeleteBatches(br, to_remove) == [b \in DOMAIN br \ to_remove |-> br[b]]

\* old_jobs: the completed jobs with completed_at set and before cutoff_time
OldJobs(js, completed, cutoff_time) ==
    {j \in completed : js[j].completed_at /= None
                       /\ js[j].completed_at[1] < cutoff_time}

\* cutoff_date and the loop that fills to_remove; only the event-loop thread
\* inserts into batch_requests, so the loop runs to its end
CleanupStart(days_old) ==
    /\ mpc = "idle"
    /\ mcall' = [op |-> "cleanup", days_old |-> days_old,
                 to_remove |-> ToRemove(batch_requests, CutoffDate(days_old))]
    /\ mpc' = "cleanup"
    /\ UNCHANGED <<jobs, batch_requests, job_queue, active_jobs, completed_jobs,
                   stats, disk, nbatches, wpc, wjob, cancel_ret, hist>>

\* the worker thread is about to insert a new key into self.completed_jobs
WorkerAboutToInsertCompleted == wpc = "finally" /\ wjob \notin completed_jobs

\* the deletions, the clean-up of completed_jobs and _save_persistent_data().
\* When the worker thread inserts into completed_jobs while old_jobs is built
\* from its items, the iteration raises: the except clause logs it, and the
\* batches are deleted but completed_jobs and the file are left as they were.
CleanupFinish ==
    /\ mpc = "cleanup"
    /\ LET br == DeleteBatches(batch_requests, mcall.to_remove)
           old_jobs == OldJobs(jobs, completed_jobs, CutoffDate(mcall.days_old))
       IN  /\ batch_requests' = br
           /\ \/ /\ completed_jobs' = completed_jobs \ old_jobs
                 /\ disk' \in SavePersistentData(disk, "loop", "worker",
                                                 WorkerAboutToSave, FALSE, br,
                                                 jobs, stats)
              \/ /\ WorkerAboutToInsertCompleted
                 /\ UNCHANGED <<completed_jobs, disk>>
    /\ mpc' = "idle"
    /\ mcall' = NoCall
    /\ UNCHANGED <<jobs, job_queue, active_jobs, stats, nbatches, wpc, wjob,
                   cancel_ret, hist>>

\* the thresholds cleanup_old_batches is called with
DaysOld == {0, DefaultDaysOld}

\* the steps of the worker thread, whatever the executors do
WorkerStep ==
    \/ WorkerGet /\ UNCHANGED othervars
    \/ WorkerCheck /\ UNCHANGED othervars
    \/ WorkerMark /\ UNCHANGED othervars
    \/ WorkerExecReturns /\ UNCHANGED othervars
    \/ WorkerExecRaises /\ UNCHANGED othervars
    \/ WorkerRetry /\ UNCHANGED othervars
    \/ WorkerFinally /\ UNCHANGED othervars

\* create_*_batch called with the default priority
SubmissionDefaultPriority ==
    \/ \E n \in 1..MaxBatchJobs :
           CreateBatchStart(CallType(nbatches + 1), MEDIUM, n) /\ UNCHANGED othervars
    \/ SubmissionStep

\* the steps of cancel_batch
CancelStep ==
    \/ \E batch_id \in 1..MaxBatches :
           CancelBatchMissing(batch_id) /\ UNCHANGED othervars
    \/ \E batch_id \in 1..MaxBatches :
           CancelBatchStart(batch_id) /\ UNCHANGED othervars
    \/ CancelBatchCheck /\ UNCHANGED othervars
    \/ CancelBatchSet /\ UNCHANGED othervars
    \/ CancelBatchFinish /\ UNCHANGED othervars

\* the steps of the worker thread while the video service works and the audio
\* and translation services are down: _process_video_job returns, the other
\* two executors raise
WorkerStepVideoOnly ==
    \/ WorkerGet /\ UNCHANGED othervars
    \/ WorkerCheck /\ UNCHANGED othervars
    \/ WorkerMark /\ UNCHANGED othervars
    \/ /\ wpc = "exec"
       /\ jobs[wjob].job_type = "video"
       /\ WorkerExecReturns /\ UNCHANGED othervars
    \/ /\ wpc = "exec"
       /\ jobs[wjob].job_type /= "video"
       /\ WorkerExecRaises /\ UNCHANGED othervars
    \/ WorkerRetry /\ UNCHANGED othervars
    \/ WorkerFinally /\ UNCHANGED othervars

NextCleanup ==
    \/ SubmissionDefaultPriority
    \/ CancelStep
    \/ WorkerStepVideoOnly
    \/ \E day \in Days : Elapse(day)
    \/ \E days_old \in DaysOld : CleanupStart(days_old) /\ UNCHANGED othervars
    \/ CleanupFinish /\ UNCHANGED othervars

\* submissions with the default priority, cancel_batch, the worker and
\* cleanup_old_batches while time passes
SpecCleanup == Init /\ [][NextCleanup]_allvars

(* ------------------------------------------------------- failing writes *)
\* batch_requests.json can no longer be written: open() or json.dump raise
DiskFault ==
    /\ disk.writable
    /\ disk' = [disk EXCEPT !.writable = FALSE]
    /\ UNCHANGED <<jobs, batch_requests, job_queue, active_jobs, completed_jobs,
                   stats, nbatches, wpc, wjob, mpc, mcall, cancel_ret, hist>>

\* the file can be written again
DiskRepair ==
    /\ ~disk.writable
    /\ disk' = [disk EXCEPT !.writable = TRUE]
    /\ UNCHANGED <<jobs, batch_requests, job_queue, active_jobs, completed_jobs,
                   stats, nbatches, wpc, wjob, mpc, mcall, cancel_ret, hist>>

NextSaveFails ==
    \/ SubmissionDefaultPriority
    \/ CancelStep
    \/ WorkerStepReturning
    \/ Elapse(MaxDays)
    \/ \E days_old \in {0} : CleanupStart(days_old) /\ UNCHANGED othervars
    \/ CleanupFinish /\ UNCHANGED othervars
    \/ DiskFault /\ UNCHANGED othervars
    \/ DiskRepair /\ UNCHANGED othervars

\* submissions with the default priority, cancel_batch, cleanup_old_batches(0)
\* on the first and on the last day, and a worker whose executors return, with
\* a file that at times cannot be written
SpecSaveFails == Init /\ [][NextSaveFails]_allvars

(* -------------------------------------- event-loop thread: get_batch_status *)
\* one entry of 'jobs' in the dictionary get_batch_status returns
JobView(job) ==
    [ id           |-> job.id,
      type         |-> job.job_type,
      status       |-> job.status,
      progress     |-> job.progress,
      created_at   |-> IsoFormat(job.created_at),
      started_at   |-> IF job.started_at /= None THEN IsoFormat(job.started_at)
                       ELSE None,
      completed_at |-> IF job.completed_at /= None THEN IsoFormat(job.completed_at)
                       ELSE None,
      error        |-> job.error,
      retry_count  |-> job.retry_count ]

\* the dictionary get_batch_status returns for a batch of the batch table
BatchView(br, js, b) ==
    [ id               |-> br[b].id,
      status           |-> br[b].status,
      total_jobs       |-> br[b].total_jobs,
      completed_jobs   |-> br[b].completed_jobs,
      failed_jobs      |-> br[b].failed_jobs,
      overall_progress |-> OverallProgress(br, js, b),
      job_statuses     |-> [st \in JobStatus |-> CountStatus(js, br[b].jobs, st)],
      created_at       |-> IsoFormat(br[b].created_at),
      actual_duration  |-> br[b].actual_duration,
      jobs             |-> [i \in DOMAIN br[b].jobs |-> JobView(js[br[b].jobs[i]])] ]

\* get_batch_status(batch_id): None for a batch id that is not in
\* batch_requests, the dictionary otherwise.  The coroutine only reads.
GetBatchStatus(batch_id) ==
    /\ mpc = "idle"
    /\ status_ret' = <<IF batch_id \notin DOMAIN batch_requests THEN None
                       ELSE BatchView(batch_requests, jobs, batch_id)>>
    /\ UNCHANGED <<vars, pqvars, today, is_running, stats_ret, list_ret, poolvars>>

NextQueries ==
    \/ SubmissionDefaultPriority
    \/ CancelStep
    \/ WorkerStepVideoOnly
    \/ Elapse(MaxDays)
    \/ \E days_old \in {0} : CleanupStart(days_old) /\ UNCHANGED othervars
    \/ CleanupFinish /\ UNCHANGED othervars
    \/ \E batch_id \in 1..MaxBatches : GetBatchStatus(batch_id)

\* every operation on the batches: submissions with the default priority,
\* cancel_batch, get_batch_status, cleanup_old_batches(0) on the first and on
\* the last day, and the worker
SpecQueries == Init /\ [][NextQueries]_allvars

(* ------------------------------------- event-loop thread: get_service_stats *)
\* 'success_rate': total_jobs_processed / (total_jobs_processed +
\* total_jobs_failed) if that sum is > 0 else 0; the quotient is kept as the
\* fraction <<numerator, denominator>>, and 0 is <<0, 1>>
SuccessRate(st) ==
    IF st.total_jobs_processed + st.total_jobs_failed > 0
    THEN <<st.total_jobs_processed, st.total_jobs_processed + st.total_jobs_failed>>
    ELSE <<0, 1>>

\* the dictionary get_service_stats returns
ServiceStats(st, br, workers, running) ==
    [ queue_size           |-> st.queue_size,
      active_workers       |-> st.active_workers,
      total_jobs_processed |-> st.total_jobs_processed,
      total_jobs_failed    |-> st.total_jobs_failed,
      success_rate         |-> SuccessRate(st),
      max_workers          |-> workers,
      is_running           |-> running,
      total_batches        |-> Cardinality(DOMAIN br),
      active_batches       |-> ActiveBatches(br) ]

\* get_service_stats(): the coroutine only reads
GetServiceStats ==
    /\ mpc = "idle"
    /\ stats_ret' = <<ServiceStats(stats, batch_requests, max_workers, is_running)>>
    /\ UNCHANGED <<vars, pqvars, today, is_running, status_ret, list_ret, poolvars>>

NextStats ==
    \/ SubmissionDefaultPriority
    \/ CancelStep
    \/ WorkerStep
    \/ GetServiceStats

\* submissions with the default priority, cancel_batch, the worker with
\* executors that return or raise, and get_service_stats
SpecStats == Init /\ [][NextStats]_allvars

(* ------------------------------------------- api/batch_routes: list_batches *)
\* str.lower() on the status strings a caller passes
Lower(s) ==
    CASE s = "PENDING" -> "pending"
      [] s = "COMPLETED" -> "completed"
      [] s = "FAILED" -> "failed"
      [] s = "CANCELLED" -> "cancelled"
      [] OTHER -> s

\* batch_info of one batch request
BatchInfo(req) ==
    [ id             |-> req.id,
      status         |-> req.status,
      total_jobs     |-> req.total_jobs,
      completed_jobs |-> req.completed_jobs,
      failed_jobs    |-> req.failed_jobs,
      created_at     |-> IsoFormat(req.created_at),
      actual_duration |-> req.actual_duration ]

\* "for batch_id, batch_request in service.batch_requests.items()": the
\* batch_info of every batch in the order of the dictionary, which is the order
\* in which the batches were registered
RECURSIVE AllBatches(_, _)
AllBatches(br, todo) ==
    IF todo = {} THEN <<>>
    ELSE LET b == CHOOSE x \in todo : \A y \in todo : x <= y
         IN  <<BatchInfo(br[b])>> \o AllBatches(br, todo \ {b})

\* [b for b in all_batches if b['status'] == status_filter]
RECURSIVE FilterByStatus(_, _)
FilterByStatus(batches, status_filter) ==
    IF batches = <<>> THEN <<>>
    ELSE (IF batches[1].status = status_filter THEN <<batches[1]>> ELSE <<>>)
             \o FilterByStatus(Tail(batches), status_filter)

\* the order of two ISO strings of datetimes: a < b
IsoLess(a, b) == a[2] < b[2]

\* list.sort(key=lambda x: x['created_at'], reverse=True): descending by key,
\* and stable: entries of equal key keep the order they had
RECURSIVE SortNewestFirst(_)
SortNewestFirst(batches) ==
    IF batches = <<>> THEN <<>>
    ELSE LET n == Len(batches)
             sorted == SortNewestFirst(SubSeq(batches, 1, n - 1))
             x == batches[n]
             before == {i \in DOMAIN sorted : ~IsoLess(sorted[i].created_at, x.created_at)}
             k == Cardinality(before)
         IN  SubSeq(sorted, 1, k) \o <<x>> \o SubSeq(sorted, k + 1, Len(sorted))

\* the slice that starts one entry late
SliceOffByOne(s, from, to) == SubSeq(s, from + 2, Min(to + 1, Len(s)))

\* s[from:to] for 0 <= from <= to
Slice(s, from, to) == SubSeq(s, from + 1, Min(to, Len(s)))

\* list_batches(status, limit, offset): the dictionary returned
ListBatchesResult(br, status, limit, offset) ==
    LET all_batches == AllBatches(br, DOMAIN br)
        filtered == IF status /= None /\ status[1] /= ""
                    THEN FilterByStatus(all_batches, Lower(status[1]))
                    ELSE all_batches
        sorted == SortNewestFirst(filtered)
        total_count == Len(sorted)
    IN  [ batches     |-> Slice(sorted, offset, offset + limit),
          total_count |-> total_count,
          limit       |-> limit,
          offset      |-> offset,
          has_more    |-> offset + limit < total_count ]

\* the route /list called with the given query parameters.  It only reads, and
\* never awaits, so no other coroutine runs inside it.
ListBatches(status, limit, offset) ==
    /\ mpc = "idle"
    /\ list_ret' = <<[status |-> status,
                      ret |-> ListBatchesResult(batch_requests, status, limit, offset)]>>
    /\ UNCHANGED <<vars, pqvars, today, is_running, status_ret, stats_ret, poolvars>>

\* the status filters, limits and offsets list_batches is called with
StatusFilters == {None, <<"pending">>, <<"completed">>, <<"FAILED">>}
Limits == 1..MaxBatches
Offsets == 0..MaxBatches

NextList ==
    \/ SubmissionDefaultPriority
    \/ WorkerStepVideoOnly
    \/ Elapse(MaxDays)
    \/ \E status \in StatusFilters, limit \in Limits, offset \in Offsets :
           ListBatches(status, limit, offset)

\* submissions with the default priority and the worker while time passes, and
\* list_batches
SpecList == Init /\ [][NextList]_allvars

(* --------------------------------------- executors that return or raise *)
NextReturnsOrRaises ==
    \/ SubmissionDefaultPriority
    \/ WorkerStep

\* submissions with the default priority and a worker whose executors return
\* or raise, without cancel_batch; the worker thread loops while is_running
\* and a coroutine that never awaits runs to its end, so both keep taking
\* steps
SpecReturnsOrRaises ==
    Init /\ [][NextReturnsOrRaises]_allvars
         /\ WF_allvars(WorkerStep) /\ WF_allvars(SubmissionStep)

(* -------------------------------------------------------- stop_processing *)
\* stop_processing(), called on the event-loop thread: self.is_running =
\* False; the caller then waits in worker_thread.join(timeout=5.0)
StopProcessing ==
    /\ mpc = "idle"
    /\ is_running
    /\ is_running' = FALSE
    /\ mpc' = "join"
    /\ UNCHANGED <<jobs, batch_requests, job_queue, active_jobs, completed_jobs,
                   stats, disk, nbatches, wpc, wjob, mcall, cancel_ret, hist>>
    /\ UNCHANGED <<pqvars, today, queryvars, poolvars>>

\* the position of the thread self.worker_thread refers to
WorkerThreadPc == IF worker_thread = 0 THEN wpc ELSE more_loops[worker_thread].pc

\* worker_thread.join(timeout=5.0) returns: the thread has ended, or the five
\* seconds have passed with the thread inside a task executor (a thread that
\* waits in job_queue.get is out of it within a second)
StopProcessingJoin ==
    /\ mpc = "join"
    /\ WorkerThreadPc \in {"stopped", "exec"}
    /\ mpc' = "idle"
    /\ UNCHANGED <<jobs, batch_requests, job_queue, active_jobs, completed_jobs,
                   stats, disk, nbatches, wpc, wjob, mcall, cancel_ret, hist>>
    /\ UNCHANGED othervars

\* job_queue.get(timeout=1.0) raises queue.Empty after a second on an empty
\* queue: "continue", and the loop tests is_running again
WorkerGetTimeout ==
    /\ wpc = "get"
    /\ job_queue = <<>>
    /\ wpc' = LoopTest
    /\ UNCHANGED <<jobs, batch_requests, job_queue, active_jobs, completed_jobs,
                   stats, disk, nbatches, wjob, mpc, mcall, cancel_ret, hist>>

NextStop ==
    \/ SubmissionDefaultPriority
    \/ WorkerStep
    \/ WorkerGetTimeout /\ UNCHANGED othervars
    \/ StopProcessing
    \/ StopProcessingJoin

\* submissions with the default priority, the worker, and stop_processing
SpecStop == Init /\ [][NextStop]_allvars

(* -------------------------------------------- stop_processing, then start *)
\* dispatch threads explored besides the one __init__ starts
MaxMoreLoops == 1

\* BatchProcessingService(max_workers=...): the default and a service
\* configured for one worker
InitConfigured == \E workers \in {1, DefaultMaxWorkers} : InitService(workers)

\* a thread that has just been started, at the first test of "while
\* self.is_running", which start_processing has made true
NewLoop == [pc |-> "get", job |-> 0]

\* the slots of more_loops whose thread has ended
EndedLoops == {k \in DOMAIN more_loops : more_loops[k].pc = "stopped"}

\* start_processing(): if not self.is_running: self.is_running = True;
\* self.worker_thread = threading.Thread(target=self._process_queue); start().
\* Nothing else is tested: neither max_workers nor the thread worker_thread
\* referred to.  The record of a thread that has ended is used again.
StartProcessing ==
    /\ mpc = "idle"
    /\ ~is_running
    /\ is_running' = TRUE
    /\ IF wpc = "stopped"
       THEN /\ wpc' = "get"
            /\ worker_thread' = 0
            /\ more_loops' = more_loops
       ELSE /\ wpc' = wpc
            /\ IF EndedLoops /= {}
               THEN LET k == CHOOSE i \in EndedLoops : \A o \in EndedLoops : i <= o
                    IN  /\ more_loops' = [more_loops EXCEPT ![k] = NewLoop]
                        /\ worker_thread' = k
               ELSE /\ Len(more_loops) < MaxMoreLoops
                    /\ more_loops' = Append(more_loops, NewLoop)
                    /\ worker_thread' = Len(more_loops) + 1
    /\ UNCHANGED <<jobs, batch_requests, job_queue, active_jobs, completed_jobs,
                   stats, disk, nbatches, wjob, mpc, mcall, cancel_ret, hist>>
    /\ UNCHANGED <<pqvars, today, queryvars, max_workers>>

\* what a step of thread k of more_loops leaves alone besides the tables
ThreadLeaves == UNCHANGED <<nbatches, wpc, wjob, mpc, mcall, cancel_ret, pqvars,
                            today, is_running, queryvars, max_workers,
                            worker_thread>>

\* WorkerGet, by thread k
ThreadGet(k) ==
    /\ more_loops[k].pc = "get"
    /\ job_queue /= <<>>
    /\ LET r == HeapPop(jobs, job_queue)
       IN  /\ more_loops' = [more_loops EXCEPT ![k] = [pc |-> "check", job |-> r[1]]]
           /\ job_queue' = r[2]
    /\ UNCHANGED <<jobs, batch_requests, active_jobs, completed_jobs, stats, disk,
                   hist>>
    /\ ThreadLeaves

\* WorkerGetTimeout, by thread k
ThreadGetTimeout(k) ==
    /\ more_loops[k].pc = "get"
    /\ job_queue = <<>>
    /\ more_loops' = [more_loops EXCEPT ![k].pc = LoopTest]
    /\ UNCHANGED <<jobs, batch_requests, job_queue, active_jobs, completed_jobs,
                   stats, disk, hist>>
    /\ ThreadLeaves

\* WorkerCheck, by thread k
ThreadCheck(k) ==
    /\ more_loops[k].pc = "check"
    /\ more_loops' = [more_loops EXCEPT ![k] =
                        IF IsCancelled(jobs[@.job])
                        THEN [pc |-> LoopTest, job |-> 0]
                        ELSE [pc |-> "mark", job |-> @.job]]
    /\ UNCHANGED <<jobs, batch_requests, job_queue, active_jobs, completed_jobs,
                   stats, disk, hist>>
    /\ ThreadLeaves

\* WorkerMark, by thread k
ThreadMark(k) ==
    /\ more_loops[k].pc = "mark"
    /\ jobs' = [jobs EXCEPT ![more_loops[k].job] = MarkProcessing(@)]
    /\ active_jobs' = active_jobs \cup {more_loops[k].job}
    /\ more_loops' = [more_loops EXCEPT ![k].pc = "exec"]
    /\ UNCHANGED <<batch_requests, job_queue, completed_jobs, stats, disk, hist>>
    /\ ThreadLeaves

\* WorkerExecReturns, by thread k
ThreadExecReturns(k) ==
    /\ more_loops[k].pc = "exec"
    /\ jobs' = [jobs EXCEPT ![more_loops[k].job] = MarkCompleted(@)]
    /\ stats' = [stats EXCEPT !.total_jobs_processed = @ + 1]
    /\ hist' = [hist EXCEPT !.executions[more_loops[k].job] = @ + 1]
    /\ more_loops' = [more_loops EXCEPT ![k].pc = "finally"]
    /\ UNCHANGED <<batch_requests, job_queue, active_jobs, completed_jobs, disk>>
    /\ ThreadLeaves

\* another dispatch thread than thread k is about to run the finally clause
OtherLoopAboutToSave(k) ==
    \/ wpc = "finally"
    \/ \E o \in DOMAIN more_loops \ {k} : more_loops[o].pc = "finally"

\* WorkerFinally, by thread k
ThreadFinally(k) ==
    /\ more_loops[k].pc = "finally"
    /\ LET job == more_loops[k].job
           act == active_jobs \ {job}
           br == UpdateBatchStatus(batch_requests, jobs, jobs[job])
           st == [stats EXCEPT !.queue_size = Len(job_queue),
                               !.active_workers = Cardinality(act)]
       IN  /\ active_jobs' = act
           /\ completed_jobs' = completed_jobs \cup {job}
           /\ batch_requests' = br
           /\ stats' = st
           /\ disk' \in SavePersistentData(disk, "worker",
                                           IF OtherLoopAboutToSave(k) THEN "worker"
                                           ELSE "loop",
                                           LoopAboutToSave \/ OtherLoopAboutToSave(k),
                                           LoopChangesBatchTable, br, jobs, st)
    /\ more_loops' = [more_loops EXCEPT ![k] = [pc |-> LoopTest, job |-> 0]]
    /\ UNCHANGED <<jobs, job_queue, hist>>
    /\ ThreadLeaves

NextStartStop ==
    \/ SubmissionDefaultPriority
    \/ WorkerStepReturning
    \/ WorkerGetTimeout /\ UNCHANGED othervars
    \/ StopProcessing
    \/ StopProcessingJoin
    \/ StartProcessing
    \/ \E k \in DOMAIN more_loops : ThreadGet(k)
    \/ \E k \in DOMAIN more_loops : ThreadGetTimeout(k)
    \/ \E k \in DOMAIN more_loops : ThreadCheck(k)
    \/ \E k \in DOMAIN more_loops : ThreadMark(k)
    \/ \E k \in DOMAIN more_loops : ThreadExecReturns(k)
    \/ \E k \in DOMAIN more_loops : ThreadFinally(k)

\* submissions with the default priority, executors that return, and any
\* sequence of stop_processing and start_processing calls
SpecStartStop == InitConfigured /\ [][NextStartStop]_allvars

(* ------------------------------------------------ executors that may block *)
\* the steps of the dispatch thread other than the return of a task executor:
\* _process_job calls the executor itself (416-420) and is back only when the
\* executor is
WorkerDispatchStep ==
    \/ WorkerGet /\ UNCHANGED othervars
    \/ WorkerCheck /\ UNCHANGED othervars
    \/ WorkerMark /\ UNCHANGED othervars
    \/ WorkerFinally /\ UNCHANGED othervars

\* submissions and a worker whose executors return when they return at all: the
\* dispatch thread and the coroutines keep taking their own steps, and nothing
\* makes an executor return
SpecBlockingExecutor ==
    Init /\ [][NextAlwaysReturns]_allvars
         /\ WF_allvars(WorkerDispatchStep) /\ WF_allvars(SubmissionStep)

(* ------------------------------------------------- the priority queue alone *)
\* self.job_queue.put(job) of a new job of the given priority
QueuePut(priority) ==
    /\ Len(pq_jobs) < MaxQueue
    /\ LET i == Len(pq_jobs)
           js == Append(pq_jobs, NewBatchJob(1, "video", i, RequestPayloads[i + 1],
                                             priority))
       IN  /\ pq_jobs' = js
           /\ pq_heap' = HeapPush(js, pq_heap, i + 1)
    /\ pq_late' = (pq_late \/ pq_out /= <<>>)
    /\ UNCHANGED pq_out

\* job = self.job_queue.get(...) by the one consumer
QueueGet ==
    /\ pq_heap /= <<>>
    /\ LET r == HeapPop(pq_jobs, pq_heap)
       IN  /\ pq_out' = Append(pq_out, r[1])
           /\ pq_heap' = r[2]
    /\ UNCHANGED <<pq_jobs, pq_late>>

NextQueue ==
    \/ \E priority \in JobPriority : QueuePut(priority) /\ UNCHANGED <<vars, envvars>>
    \/ QueueGet /\ UNCHANGED <<vars, envvars>>

SpecQueue == Init /\ [][NextQueue]_allvars

(* ------------------------------------------------ a stream of submissions *)
(* The queue under submissions that never end.  A BatchJob that has been    *)
(* got is no longer looked at, and its place in pq_jobs is taken by the     *)
(* next job put; pq_out holds the job got last.                            *)

\* jobs that wait on the queue at a time
MaxWaiting == 2

\* the jobs that are on the queue
Queued == {pq_heap[p] : p \in DOMAIN pq_heap}

\* self.job_queue.put(job) of a new job of the given priority
StreamPut(priority) ==
    /\ Len(pq_heap) < MaxWaiting
    /\ LET free == DOMAIN pq_jobs \ (Queued \cup {pq_out[k] : k \in DOMAIN pq_out})
           slot == IF free /= {} THEN CHOOSE i \in free : \A k \in free : i <= k
                   ELSE Len(pq_jobs) + 1
           job == NewBatchJob(1, "video", slot - 1, RequestPayloads[slot], priority)
           js == IF slot \in DOMAIN pq_jobs THEN [pq_jobs EXCEPT ![slot] = job]
                 ELSE Append(pq_jobs, job)
       IN  /\ pq_jobs' = js
           /\ pq_heap' = HeapPush(js, pq_heap, slot)
    /\ UNCHANGED <<pq_out, pq_late>>

\* job = self.job_queue.get(...) by the dispatch thread
StreamGet ==
    /\ pq_heap /= <<>>
    /\ LET r == HeapPop(pq_jobs, pq_heap)
       IN  /\ pq_out' = <<r[1]>>
           /\ pq_heap' = r[2]
    /\ UNCHANGED <<pq_jobs, pq_late>>

\* a job of a priority above Low is on the queue
HigherPriorityQueued == \E i \in Queued : pq_jobs[i].priority < LOW

\* submissions of jobs of a priority above Low
HigherPrioritySubmission ==
    \E priority \in JobPriority \ {LOW} :
        StreamPut(priority) /\ UNCHANGED <<vars, envvars>>

\* the dispatch thread gets a job while a job of a priority above Low waits
StreamDispatch == HigherPriorityQueued /\ StreamGet /\ UNCHANGED <<vars, envvars>>

NextStream ==
    \/ HigherPrioritySubmission
    \/ /\ Len(pq_heap) + 1 < MaxWaiting
       /\ StreamPut(LOW) /\ UNCHANGED <<vars, envvars>>
    \/ StreamDispatch
    \/ Elapse(MaxDays)

\* submissions that outpace the dispatch thread: jobs of a priority above Low
\* keep being put, and the dispatch thread, which loops while is_running,
\* comes back to job_queue.get each time before the last of them is gone
SpecStream ==
    Init /\ [][NextStream]_allvars
         /\ WF_allvars(HigherPrioritySubmission) /\ WF_allvars(StreamDispatch)

(* ------------------------------------------------------------------ claims *)
InQueue(j) == \E p \in DOMAIN job_queue : job_queue[p] = j

\* the worker is between "job.status = FAILED" and the retry logic for job j
InRetryHandler(j) == wjob = j /\ wpc = "retry"

\* job j is Failed and no retry is pending for it
PermanentlyFailed(j) == jobs[j].status = FAILED /\ ~InRetryHandler(j)

AllowedStatusEdges ==
    { <<PENDING, PROCESSING>>, <<PROCESSING, COMPLETED>>, <<PROCESSING, FAILED>>,
      <<FAILED, PENDING>>, <<PENDING, CANCELLED>> }

\* C1: a job's status changes only along Pending->Processing,
\* Processing->Completed, Processing->Failed, Failed->Pending (retry) and
\* Pending->Cancelled; a Completed, permanently Failed or Cancelled job never
\* changes status again.
C1_StatusEdgesOnly ==
    [][\A j \in DOMAIN jobs :
          jobs'[j].status /= jobs[j].status
              => <<jobs[j].status, jobs'[j].status>> \in AllowedStatusEdges]_allvars

\* C2: a job that is marked Cancelled is never handed to a task executor: when
\* the worker enters _process_job and marks the job Processing, the job is not
\* Cancelled.
C2_CancelledNeverDispatched ==
    [][(wpc = "mark" /\ wpc' = "exec") => jobs[wjob].status /= CANCELLED]_allvars

\* what the retry logic keeps for every job: re-queues equal retry_count, at
\* most max_retries of them, the priority demoted once per re-queue and capped
\* at Low, and a permanently Failed job has used all its retries
RetryAccounting ==
    \A j \in DOMAIN jobs :
        /\ hist.requeues[j] = jobs[j].retry_count
        /\ jobs[j].retry_count <= jobs[j].max_retries
        /\ jobs[j].priority = Min(hist.created_priority[j] + hist.requeues[j], LOW)
        /\ PermanentlyFailed(j) =>
              /\ jobs[j].retry_count = jobs[j].max_retries
              /\ hist.requeues[j] = jobs[j].max_retries

\* C3: a job whose executor always raises reaches Failed with
\* retry_count == max_retries after exactly max_retries re-queues, and after
\* its k-th re-queue its priority value is min(initial value + k, Low).
C3_AlwaysRaisingJobFails ==
    /\ []RetryAccounting
    /\ \A j \in 1..MaxJobs :
          [](j \in DOMAIN jobs => <>(j \in DOMAIN jobs /\ PermanentlyFailed(j)))

C3_Witness ==
    \E j \in DOMAIN jobs :
        /\ PermanentlyFailed(j)
        /\ hist.requeues[j] = DefaultMaxRetries
        /\ hist.created_priority[j] = URGENT
        /\ jobs[j].priority = LOW

\* the worker runs the retry logic of the except clause for wjob
RetryStep == wpc = "retry" /\ wpc' = "finally"

\* after the step wjob is back on the queue
RequeuedNext == \E p \in DOMAIN job_queue' : job_queue'[p] = wjob

\* C4 as stated: retry_count is incremented on every failure, the job is
\* re-queued exactly when the incremented count is below max_retries and is
\* Failed otherwise, so a job with max_retries = N is executed N times.
C4_IncrementThenTest ==
    [][RetryStep =>
          LET old == jobs[wjob]
              new == jobs'[wjob]
          IN  /\ new.retry_count = old.retry_count + 1
              /\ RequeuedNext <=> new.retry_count < new.max_retries
              /\ ~RequeuedNext =>
                    /\ new.status = FAILED
                    /\ hist.executions[wjob] = new.max_retries]_allvars

\* C4 (amended): on each executor failure the job is reset to Pending, its
\* retry_count incremented and the job re-pushed exactly when retry_count
\* before the increment is below max_retries; otherwise the job is left as the
\* except clause marked it, with retry_count == max_retries, so a job with
\* max_retries = N whose executor always fails is executed N + 1 times.
C4_TestThenIncrement ==
    [][RetryStep =>
          LET old == jobs[wjob]
              new == jobs'[wjob]
          IN  /\ RequeuedNext <=> old.retry_count < old.max_retries
              /\ RequeuedNext =>
                    /\ new.retry_count = old.retry_count + 1
                    /\ new.status = PENDING
              /\ ~RequeuedNext =>
                    /\ new = old
                    /\ old.retry_count = old.max_retries
                    /\ hist.executions[wjob] = old.max_retries + 1]_allvars

C4_Witness ==
    /\ wpc = "finally"
    /\ wjob \in DOMAIN jobs
    /\ jobs[wjob].status = FAILED
    /\ ~InQueue(wjob)
    /\ jobs[wjob].retry_count = jobs[wjob].max_retries
    /\ hist.executions[wjob] = jobs[wjob].max_retries + 1

\* C5: retry_count never exceeds max_retries, and every job that is Failed
\* with no retry pending has retry_count == max_retries.
C5_RetryCountBounded ==
    \A j \in DOMAIN jobs :
        /\ jobs[j].retry_count <= jobs[j].max_retries
        /\ PermanentlyFailed(j) => jobs[j].retry_count = jobs[j].max_retries

C5_Witness ==
    /\ wpc = "get"
    /\ \E j \in DOMAIN jobs :
          jobs[j].status = FAILED /\ jobs[j].retry_count = jobs[j].max_retries

\* C6: a job re-queued for retry is put back Pending with started_at,
\* completed_at and error cleared and its priority one step nearer Low (Low
\* stays Low); its input, id and max_retries are unchanged.
C6_RequeueEffect ==
    [][(RetryStep /\ RequeuedNext) =>
          LET old == jobs[wjob]
              new == jobs'[wjob]
          IN  /\ new.status = PENDING
              /\ new.started_at = None
              /\ new.completed_at = None
              /\ new.error = None
              /\ new.priority = IF old.priority = LOW THEN LOW ELSE old.priority + 1
              /\ new.input_data = old.input_data
              /\ new.id = old.id
              /\ new.max_retries = old.max_retries]_allvars

C6_Witness ==
    /\ wpc = "finally"
    /\ wjob \in DOMAIN jobs
    /\ InQueue(wjob)
    /\ jobs[wjob].status = PENDING
    /\ jobs[wjob].error = None
    /\ jobs[wjob].retry_count = 2
    /\ hist.created_priority[wjob] = MEDIUM
    /\ jobs[wjob].priority = LOW

\* C9: cancel_batch on an existing batch returns true, and each status it
\* writes turns a Pending job of that batch into Cancelled; no job that is
\* Processing, Completed or Failed and no job of another batch is changed.
C9_CancelOnlyPending ==
    /\ [][(mpc = "cancel_loop" /\ mpc' = "idle") => cancel_ret' = <<TRUE>>]_allvars
    /\ [][(mpc = "cancel_set" /\ mpc' = "cancel_loop") =>
            \A j \in DOMAIN jobs :
                \/ jobs'[j] = jobs[j]
                \/ /\ BatchIdOf(jobs[j]) = mcall.batch_id
                   /\ jobs[j].status = PENDING
                   /\ jobs'[j] = [jobs[j] EXCEPT !.status = CANCELLED]]_allvars

JobsOf(b) == {batch_requests[b].jobs[i] : i \in DOMAIN batch_requests[b].jobs}

AllJobsTerminal(b) ==
    \A j \in JobsOf(b) : jobs[j].status \in {COMPLETED, FAILED, CANCELLED}

CountersSumToTotal(b) ==
    batch_requests[b].completed_jobs + batch_requests[b].failed_jobs
        = batch_requests[b].total_jobs

\* neither thread is inside an operation
Quiescent == wpc = "get" /\ mpc = "idle"

AggregatorStep == wpc = "finally" /\ wpc' /= "finally"

PqPriority(k) == pq_jobs[k].priority
PqPriorities == [k \in DOMAIN pq_jobs |-> PqPriority(k)]

\* the job a QueueGet step returns is minimal among the jobs queued before it
QueueGetReturnsMinimum ==
    pq_out' /= pq_out =>
        \A p \in DOMAIN pq_heap :
            PqPriority(pq_out'[Len(pq_out')]) <= PqPriority(pq_heap[p])

\* jobs that were all queued before the first get come out in ascending
\* priority value; [Low, Urgent, Medium] comes out Urgent, Medium, Low
QueueOutAscending ==
    /\ ~pq_late =>
          \A a, b \in DOMAIN pq_out :
              a < b => PqPriority(pq_out[a]) <= PqPriority(pq_out[b])
    /\ (~pq_late /\ PqPriorities = <<LOW, URGENT, MEDIUM>> /\ Len(pq_out) = 3)
          => pq_out = <<2, 3, 1>>

\* C7: with one consumer every get returns a job of minimal priority value
\* among the queued jobs, so jobs queued together are dispatched Urgent before
\* High before Medium before Low; [Low, Urgent, Medium] yields Urgent, Medium,
\* Low.
C7_DispatchByPriority ==
    [](QueueOutAscending) /\ [][QueueGetReturnsMinimum]_allvars

C7_Witness ==
    /\ ~pq_late
    /\ PqPriorities = <<LOW, URGENT, MEDIUM>>
    /\ pq_out = <<2, 3, 1>>

\* C8: jobs of equal priority are dequeued in the order they were enqueued
\* (the queue order is priority value, then enqueue sequence number).
C8_FifoAmongEqualPriority ==
    \A a, b \in DOMAIN pq_out :
        (a < b /\ PqPriority(pq_out[a]) = PqPriority(pq_out[b]))
            => pq_out[a] < pq_out[b]

(* ------------------------------------------------------- batch aggregation *)
HasNonTerminalJob(b) ==
    \E j \in JobsOf(b) : jobs[j].status \in {PENDING, PROCESSING}

BatchTerminal(b) == batch_requests[b].status \in {COMPLETED, FAILED, CANCELLED}

\* C11: for every batch completed_jobs + failed_jobs <= total_jobs, and
\* total_jobs is the number of jobs of the batch.
C11_CountersWithinTotal ==
    \A b \in DOMAIN batch_requests :
        /\ batch_requests[b].completed_jobs + batch_requests[b].failed_jobs
              <= batch_requests[b].total_jobs
        /\ batch_requests[b].total_jobs = Len(batch_requests[b].jobs)
        /\ batch_requests[b].total_jobs = Cardinality(JobsOf(b))

C11_Witness ==
    \E b \in DOMAIN batch_requests :
        /\ batch_requests[b].total_jobs = 2
        /\ batch_requests[b].completed_jobs = 1
        /\ batch_requests[b].failed_jobs = 1

\* C12: whenever no submission or cancel_batch call is in progress and the
\* worker is not between a job's last status write and the aggregator, a
\* batch's status is Completed, Failed or Cancelled exactly when every job of
\* the batch is Completed, Failed or Cancelled.
C12_BatchTerminalIffJobsTerminal ==
    (mpc = "idle" /\ wpc \notin {"retry", "finally"}) =>
        \A b \in DOMAIN batch_requests : BatchTerminal(b) <=> AllJobsTerminal(b)

\* C13: a batch with a Pending or Processing job has status Processing, and
\* active_batches counts exactly the batches that have such a job.
C13_ProcessingWhileJobsRemain ==
    /\ \A b \in DOMAIN batch_requests :
          HasNonTerminalJob(b) => batch_requests[b].status = PROCESSING
    /\ ActiveBatches(batch_requests)
          = Cardinality({b \in DOMAIN batch_requests : HasNonTerminalJob(b)})

C15_FailedOnlyWithoutSuccess ==
    \A b \in DOMAIN batch_requests :
        batch_requests[b].status = FAILED =>
            /\ AllJobsTerminal(b)
            /\ \A j \in JobsOf(b) : jobs[j].status /= COMPLETED

C15_Witness ==
    \E b \in DOMAIN batch_requests :
        /\ batch_requests[b].status = FAILED
        /\ batch_requests[b].failed_jobs = batch_requests[b].total_jobs
        /\ \A j \in JobsOf(b) : jobs[j].status = FAILED

\* C16: no job is dequeued or run before its batch is in the batch table: the
\* job the worker holds always belongs to a registered batch.
C16_SubmissionAtomic ==
    wjob /= 0 => BatchIdOf(jobs[wjob]) \in DOMAIN batch_requests

\* what get_batch_status reports for a batch that has run to completion
ReportedCompleted(b) ==
    /\ b \in DOMAIN batch_requests
    /\ batch_requests[b].status = COMPLETED
    /\ batch_requests[b].completed_jobs = batch_requests[b].total_jobs
    /\ OverallProgress(batch_requests, jobs, b) = 100

\* the worker is idle on an empty queue and no coroutine is running: no job
\* remains to be run and nothing changes until the next submission
AtRest == wpc = "get" /\ mpc = "idle" /\ job_queue = <<>>

\* C17: with a running worker whose executors succeed on every job, every
\* submitted batch eventually has status Completed, completed_jobs ==
\* total_jobs and overall_progress == 100: once all submitted work has been
\* run, every batch in the batch table is reported so.
C17_BatchEventuallyCompleted ==
    AtRest => \A b \in DOMAIN batch_requests : ReportedCompleted(b)

(* ------------------------------------------------------------ persistence *)
\* a new service instance is constructed and loads the file
RestartStep == hist'.restarts = hist.restarts + 1

\* the loaded job agrees with the saved one on the fields of the claim
SameJob(loaded, saved) ==
    /\ loaded.status = saved.status
    /\ loaded.priority = saved.priority
    /\ loaded.retry_count = saved.retry_count
    /\ loaded.progress = saved.progress
    /\ loaded.created_at = saved.created_at
    /\ loaded.started_at = saved.started_at
    /\ loaded.completed_at = saved.completed_at

\* the loaded batch agrees with the saved one on the fields of the claim
SameBatch(loaded, saved) ==
    /\ loaded.total_jobs = saved.total_jobs
    /\ loaded.completed_jobs = saved.completed_jobs
    /\ loaded.failed_jobs = saved.failed_jobs
    /\ loaded.status = saved.status
    /\ Len(loaded.jobs) = Len(saved.jobs)
    /\ \A i \in DOMAIN saved.jobs : SameJob(loaded.jobs[i], saved.jobs[i])

\* C18: a new service instance that loads a completely written file has
\* exactly the batches of the batch table the file was saved from, each with
\* the same total, completed and failed counts and status, and each job with
\* the same status, priority, retry_count, progress and timestamps.
C18_SaveLoadRoundTrip ==
    [][(RestartStep /\ disk'.file.kind = "json") =>
          LET loaded == BatchTable(batch_requests', jobs')
              saved == disk'.file.of
          IN  /\ DOMAIN loaded = DOMAIN saved
              /\ \A b \in DOMAIN saved : SameBatch(loaded[b], saved[b])]_allvars

\* a restarted instance holding a loaded batch of a Completed and a Pending job
C18_Witness ==
    /\ hist.restarts = 1
    /\ disk.file.kind = "json"
    /\ job_queue = <<>>
    /\ wpc = "get"
    /\ \E b \in DOMAIN batch_requests :
          /\ batch_requests[b].total_jobs = 2
          /\ batch_requests[b].completed_jobs = 1
          /\ \E j \in JobsOf(b) :
                jobs[j].status = COMPLETED /\ jobs[j].started_at = Now
          /\ \E j \in JobsOf(b) :
                jobs[j].status = PENDING /\ jobs[j].started_at = None
          /\ BatchTable(batch_requests, jobs)[b] = disk.file.of[b]

\* every Pending job is on the ready queue or in the worker's hands
PendingJobsReady ==
    \A j \in DOMAIN jobs : jobs[j].status = PENDING => (InQueue(j) \/ wjob = j)

\* C19: after a restart every job that was Pending in the snapshot is back in
\* the ready queue (so that the running worker takes it to a terminal status).
C19_PendingJobsResumed ==
    hist.restarts > 0 => PendingJobsReady

\* C20: a snapshot write that is interrupted leaves the complete snapshot
\* written before it as what the next load reads: an instance that starts
\* when the file last held a complete snapshot loads that snapshot.
C20_SnapshotWriteAtomic ==
    [][(RestartStep /\ disk.file.kind = "json") =>
          <<batch_requests', jobs'>> = LoadPersistentData(disk.file)]_allvars

(* ------------------------------------------------- persistence and threads *)
\* C21: snapshot writes are serialized: no thread writes the snapshot while
\* the other thread is inside a write of its own, and the worker thread never
\* writes (iterating over the batch table) while the event-loop thread is
\* inserting a batch into the table or deleting batches from it.
C21_WritesSerialized ==
    /\ [](disk.overlapped = "none")
    /\ [][AggregatorStep => ~LoopChangesBatchTable]_allvars

\* the file holds a complete snapshot in which job i of batch b is recorded
\* with the status and started_at the job has now
SnapshotRecords(b, i) ==
    /\ disk.file.kind = "json"
    /\ b \in DOMAIN disk.file.of
    /\ LET job == jobs[batch_requests[b].jobs[i]]
           saved == disk.file.of[b].jobs[i]
       IN  saved.status = job.status /\ saved.started_at = job.started_at

\* C22: every job status transition is followed by a snapshot write,
\* Pending->Processing included: while a job of a registered batch is
\* Processing, inside its task executor, the snapshot on file records it as
\* Processing with its started_at.
C22_ProcessingPersisted ==
    \A b \in DOMAIN batch_requests :
        \A i \in DOMAIN batch_requests[b].jobs :
            (/\ wpc = "exec"
             /\ wjob = batch_requests[b].jobs[i]
             /\ jobs[wjob].status = PROCESSING)
                => SnapshotRecords(b, i)

\* the last step of create_*_batch, of cancel_batch and of cleanup_old_batches
RegisterStep == mpc = "register" /\ mpc' = "idle"
CancelFinishStep == mpc = "cancel_loop" /\ mpc' = "idle"
CleanupFinishStep == mpc = "cleanup" /\ mpc' = "idle"

\* nothing stands in the way of the write the step makes: the file can be
\* written, the other thread is not inside a write or changing a table the
\* step iterates over
LoopWriteUnhindered ==
    /\ disk.writable
    /\ disk.overlapped /= "loop"
    /\ ~(mpc = "cleanup" /\ WorkerAboutToInsertCompleted)
WorkerWriteUnhindered ==
    /\ disk.writable
    /\ disk.overlapped /= "worker"
    /\ ~LoopChangesBatchTable

\* the file holds the complete snapshot of the state after the step
FullWrite == disk'.file = JsonFile(batch_requests', jobs', stats')

\* C23: a failed snapshot write is not fatal.  While the file cannot be
\* written, a submission still registers its batch, cancel_batch still returns
\* true with the batch Cancelled, the worker still finishes its job (tables and
\* batch status updated, loop continued) and cleanup still deletes its
\* batches, the jobs and the queue being what the operation makes them; and
\* every later operation whose write nothing hinders writes the full snapshot.
C23_FailedWriteNotFatal ==
    /\ [][(~disk.writable /\ RegisterStep) =>
            /\ batch_requests' = batch_requests @@
                  (mcall.batch_id :> NewBatchRequest(mcall.batch_id, mcall.jobs))
            /\ <<jobs', job_queue'>> = <<jobs, job_queue>>]_allvars
    /\ [][(~disk.writable /\ CancelFinishStep) =>
            /\ cancel_ret' = <<TRUE>>
            /\ batch_requests' =
                  [batch_requests EXCEPT ![mcall.batch_id].status = CANCELLED]
            /\ <<jobs', job_queue'>> = <<jobs, job_queue>>]_allvars
    /\ [][(~disk.writable /\ AggregatorStep) =>
            /\ batch_requests' = UpdateBatchStatus(batch_requests, jobs, jobs[wjob])
            /\ wjob \in completed_jobs' /\ wjob \notin active_jobs'
            /\ wpc' = "get"
            /\ <<jobs', job_queue'>> = <<jobs, job_queue>>]_allvars
    /\ [][(~disk.writable /\ CleanupFinishStep) =>
            /\ batch_requests' = DeleteBatches(batch_requests, mcall.to_remove)
            /\ <<jobs', job_queue'>> = <<jobs, job_queue>>]_allvars
    /\ [][((RegisterStep \/ CancelFinishStep \/ CleanupFinishStep)
              /\ LoopWriteUnhindered) => FullWrite]_allvars
    /\ [][(AggregatorStep /\ WorkerWriteUnhindered) => FullWrite]_allvars

\* the file was left empty by a write that failed, and cancel_batch has
\* returned true on a batch that is Cancelled in memory
C23_Witness ==
    /\ ~disk.writable
    /\ disk.file.kind = "truncated"
    /\ Quiescent
    /\ cancel_ret = <<TRUE>>
    /\ \E b \in DOMAIN batch_requests :
          /\ batch_requests[b].status = CANCELLED
          /\ \A j \in JobsOf(b) : jobs[j].status = CANCELLED

(* ----------------------------------------------------------------- cleanup *)
\* cleanup_old_batches has chosen the batches to remove
CleanupStartStep == mpc = "idle" /\ mpc' = "cleanup"

\* days since the batch was created
AgeInDays(b) == today - batch_requests[b].created_at[1]

\* C24: cleanup(d) chooses for removal exactly the batches whose status is
\* Completed, Failed or Cancelled and that were created more than d days ago,
\* and removes exactly the batches it chose, leaving the others as they are;
\* with d = 7 a Completed batch created 10 days ago is chosen, a batch created
\* 1 day ago is not, and a Pending batch is never chosen.
C24_CleanupRemovesOldTerminal ==
    /\ [][CleanupStartStep =>
            /\ mcall'.to_remove =
                  {b \in DOMAIN batch_requests :
                      /\ BatchTerminal(b)
                      /\ AgeInDays(b) > mcall'.days_old}
            /\ \A b \in DOMAIN batch_requests :
                  /\ (/\ mcall'.days_old = 7
                      /\ batch_requests[b].status = COMPLETED
                      /\ AgeInDays(b) = 10) => b \in mcall'.to_remove
                  /\ (mcall'.days_old = 7 /\ AgeInDays(b) = 1)
                        => b \notin mcall'.to_remove
                  /\ batch_requests[b].status = PENDING
                        => b \notin mcall'.to_remove]_allvars
    /\ [][CleanupFinishStep =>
            /\ DOMAIN batch_requests' = DOMAIN batch_requests \ mcall.to_remove
            /\ \A b \in DOMAIN batch_requests' :
                  batch_requests'[b] = batch_requests[b]]_allvars

\* cleanup(7) on the last day has chosen the Completed batch created on day 0
\* and not the terminal batch created the day before
C24_Witness ==
    /\ mpc = "cleanup"
    /\ mcall.days_old = DefaultDaysOld
    /\ DOMAIN batch_requests = {1, 2}
    /\ batch_requests[1].status = COMPLETED /\ AgeInDays(1) = MaxDays
    /\ BatchTerminal(2) /\ AgeInDays(2) = 1
    /\ mcall.to_remove = {1}

\* C25: cleanup never removes a batch that still has a Pending or Processing
\* job, whatever submit, dispatch, retry and cancel_batch did before (a batch
\* cancelled while one of its jobs was running included).
C25_CleanupSparesUnfinished ==
    [][CleanupFinishStep =>
          \A b \in mcall.to_remove : ~HasNonTerminalJob(b)]_allvars

\* C26: only cleanup removes a batch from the batch table: a step of submit,
\* dispatch, completion, retry, permanent failure, cancel_batch or
\* get_batch_status removes no batch, and no step removes a job from the job
\* list of a batch that stays or destroys a BatchJob object.
C26_OnlyCleanupRemoves ==
    [][/\ \A b \in DOMAIN batch_requests :
             /\ b \notin DOMAIN batch_requests'
                   => (CleanupFinishStep /\ b \in mcall.to_remove)
             /\ b \in DOMAIN batch_requests'
                   => batch_requests'[b].jobs = batch_requests[b].jobs
       /\ \A j \in DOMAIN jobs :
             j \in DOMAIN jobs' /\ jobs'[j].id = jobs[j].id]_allvars

\* the first batch has been removed by cleanup; the second, whose job has been
\* retried, has been queried and is still in the table after a cancel_batch
\* call has returned true
C26_Witness ==
    /\ Quiescent
    /\ nbatches = 2
    /\ DOMAIN batch_requests = {2}
    /\ cancel_ret = <<TRUE>>
    /\ status_ret /= <<>> /\ status_ret[1] /= None
    /\ status_ret[1].id = 2
    /\ \E j \in JobsOf(2) : jobs[j].retry_count > 0

(* ----------------------------------------------------------- unknown batch *)
\* the batches, jobs, queue contents and statistics are left as they are
ServiceStateUnchanged ==
    UNCHANGED <<jobs, batch_requests, job_queue, active_jobs, completed_jobs,
                stats, disk>>

\* C27: for a batch id that is not in the batch table cancel_batch returns
\* false and get_batch_status returns None, and neither call changes a batch,
\* a job, the queue or a statistic.
C27_UnknownBatchNoEffect ==
    [][\A batch_id \in 1..MaxBatches :
          batch_id \notin DOMAIN batch_requests =>
              /\ (CancelBatchMissing(batch_id) \/ CancelBatchStart(batch_id))
                    => (cancel_ret' = <<FALSE>> /\ ServiceStateUnchanged)
              /\ GetBatchStatus(batch_id)
                    => (status_ret' = <<None>> /\ ServiceStateUnchanged)]_allvars

\* both calls have been made for a batch that cleanup has removed or that was
\* never created, while another batch has a job waiting on the queue
C27_Witness ==
    /\ cancel_ret = <<FALSE>>
    /\ status_ret = <<None>>
    /\ mpc = "idle"
    /\ DOMAIN batch_requests = {2}
    /\ job_queue /= <<>>

(* ------------------------------------------------------ failure containment *)
\* the worker handles the failure of wjob: the except clause, its retry logic,
\* and the finally clause that follows them
FailureHandlingStep ==
    \/ wpc = "exec" /\ wpc' = "retry"
    \/ RetryStep
    \/ AggregatorStep /\ jobs[wjob].status \in {FAILED, PENDING}

\* C28: a failing job is contained: the steps that handle the failure change
\* no other job and take no other job off the queue, after them the worker is
\* back at the queue, and every job that is on the queue is later dispatched
\* to its executor.
C28_FailureContained ==
    /\ [][FailureHandlingStep =>
            /\ \A j \in DOMAIN jobs : j /= wjob => jobs'[j] = jobs[j]
            /\ \A j \in DOMAIN jobs : InQueue(j) => InQueue(j)']_allvars
    /\ [](wpc = "retry" => <>(wpc = "get"))
    /\ \A j \in 1..MaxJobs :
          [](InQueue(j) => <>(wjob = j /\ wpc = "exec"))

\* one job has failed for good; another, submitted with it, is now in its
\* executor, untouched by that failure
C28_Witness ==
    /\ wpc = "exec"
    /\ \E j \in DOMAIN jobs :
          /\ j /= wjob
          /\ PermanentlyFailed(j)
          /\ BatchIdOf(jobs[j]) = BatchIdOf(jobs[wjob])
    /\ jobs[wjob].status = PROCESSING
    /\ jobs[wjob].retry_count = 0
    /\ jobs[wjob].priority = hist.created_priority[wjob]
    /\ jobs[wjob].error = None /\ jobs[wjob].result = None

(* ------------------------------------------------------- one job, one worker *)
\* the number of times job j is on the ready queue
TimesInQueue(j) == Cardinality({p \in DOMAIN job_queue : job_queue[p] = j})

\* C29: a job is on the ready queue at most once and never while its status
\* is Processing, and the job the worker has taken and is dispatching or
\* running is not on the queue (it is re-pushed only by the retry path, after
\* being reset to Pending), so no second dispatch can pick up a job that is
\* being executed.
C29_JobNeverShared ==
    \A j \in DOMAIN jobs :
        /\ TimesInQueue(j) <= 1
        /\ InQueue(j) => jobs[j].status /= PROCESSING
        /\ (wjob = j /\ wpc \in {"check", "mark", "exec", "retry"}) => ~InQueue(j)

\* a job re-pushed by the retry path waits on the queue, Pending, while the
\* worker runs another job
C29_Witness ==
    /\ wpc = "exec"
    /\ jobs[wjob].status = PROCESSING
    /\ \E j \in DOMAIN jobs :
          /\ j /= wjob
          /\ TimesInQueue(j) = 1
          /\ jobs[j].status = PENDING
          /\ jobs[j].retry_count > 0

(* ---------------------------------------------------------------- shutdown *)
\* C30: after stop_processing has signalled shutdown the worker starts no
\* other job: it takes no job off the queue, and the jobs on the queue stay
\* there, Pending (the job it is running is finished, not preempted).
C30_NoJobStartedAfterStop ==
    [][~is_running =>
          /\ ~(wpc = "get" /\ wpc' = "check")
          /\ \A j \in DOMAIN jobs :
                InQueue(j) => (InQueue(j)' /\ jobs'[j].status = PENDING)
          /\ wpc = "exec" => wpc' \in {"exec", "retry", "finally"}]_allvars

(* ------------------------------------------------------------ worker slots *)
\* the jobs whose status is Processing
ProcessingJobs == {j \in DOMAIN jobs : jobs[j].status = PROCESSING}

\* C31: with two or more configured workers, a job whose executor blocks
\* stalls only its own worker: a job that is queued while another job is in
\* its executor is taken off the queue and becomes Processing while that other
\* job is still Processing, unless the executor has returned before.
C31_BlockedExecutorStallsOnlyItsWorker ==
    \A j \in 1..MaxJobs :
        [](( /\ max_workers >= 2
             /\ wpc = "exec"
             /\ InQueue(j) )
           => <>(wpc /= "exec" \/ ProcessingJobs = {wjob, j}))

(* --------------------------------------------------------- actual_duration *)
\* C32: every batch whose jobs are all terminal and of which at least one job
\* ran (batches with Cancelled jobs included) has actual_duration set to the
\* latest completed_at minus the earliest started_at of its jobs, once the
\* step that made it terminal is over.
C32_ActualDurationOfTerminalBatch ==
    Quiescent =>
        \A b \in DOMAIN batch_requests :
            LET started == {jobs[j].started_at : j \in JobsOf(b)} \ {None}
                ended == {jobs[j].completed_at : j \in JobsOf(b)} \ {None}
            IN  (AllJobsTerminal(b) /\ started /= {} /\ ended /= {}) =>
                    batch_requests[b].actual_duration
                        = <<MaxTime(ended)[1] - MinTime(started)[1]>>

(* -------------------------------------------------------- overall_progress *)
\* the sum of the progress values of the entries of a 'jobs' list
RECURSIVE SumProgress(_)
SumProgress(views) ==
    IF views = <<>> THEN 0
    ELSE views[1].progress + SumProgress(Tail(views))

\* C33: what get_batch_status returns for a batch has overall_progress equal
\* to the sum of its jobs' progress values divided by total_jobs (0 for a
\* batch with no jobs); a job's progress is 100 when the job is Completed and
\* 0 otherwise, so overall_progress is 100 exactly when every job of the
\* batch is Completed.
C33_OverallProgressIsMean ==
    (status_ret /= <<>> /\ status_ret[1] /= None) =>
        LET view == status_ret[1] IN
        /\ view.overall_progress
              = IF view.total_jobs > 0
                THEN SumProgress(view.jobs) \div view.total_jobs ELSE 0
        /\ \A i \in DOMAIN view.jobs :
              view.jobs[i].progress
                  = IF view.jobs[i].status = COMPLETED THEN 100 ELSE 0
        /\ view.total_jobs > 0 =>
              (view.overall_progress = 100
                  <=> \A i \in DOMAIN view.jobs : view.jobs[i].status = COMPLETED)

(* --------------------------------------------------------------- starvation *)
\* the job in place i of pq_jobs is Pending on the queue with priority Low
LowPending(i) ==
    i \in Queued /\ pq_jobs[i].priority = LOW /\ pq_jobs[i].status = PENDING

\* C34: starvation is possible.  In the executions in which submissions of
\* higher priority outpace the dispatch thread, the dispatch thread gets jobs
\* again and again, jobs of higher priority are put again and again, and a
\* Low-priority job that is Pending on the queue stays there for ever.
C34_StarvationPossible ==
    /\ []<><<StreamGet>>_pqvars
    /\ []<><<\E priority \in JobPriority \ {LOW} : StreamPut(priority)>>_pqvars
    /\ [][\A i \in 1..(MaxWaiting + 1) : LowPending(i) => LowPending(i)']_allvars

\* a Low-priority job created on the first day is still Pending on the queue
\* while the job got last is one of a higher priority created days later
C34_Witness ==
    /\ pq_out /= <<>>
    /\ pq_jobs[pq_out[1]].priority < LOW
    /\ \E i \in DOMAIN pq_jobs :
          /\ LowPending(i)
          /\ pq_jobs[i].created_at[1] < pq_jobs[pq_out[1]].created_at[1]

(* ------------------------------------------------------------ list_batches *)
\* the batches of the batch table that a status filter selects
Matching(br, status) ==
    {b \in DOMAIN br : status = None \/ br[b].status = Lower(status[1])}

\* ret is the page list_batches owes for the batch table br and the filter
PageOf(ret, br, status) ==
    LET matching == Matching(br, status)
        total == Cardinality(matching)
        page == ret.batches
        Newer(b, c) == br[b].created_at[1] > br[c].created_at[1]
    IN  /\ ret.total_count = total
        /\ ret.has_more = (ret.offset + ret.limit < total)
        /\ Len(page) <= ret.limit
        /\ Len(page) = IF total - ret.offset < 0 THEN 0
                       ELSE Min(ret.limit, total - ret.offset)
        /\ \A i \in DOMAIN page :
              /\ page[i].id \in matching
              /\ page[i] = BatchInfo(br[page[i].id])
              /\ Cardinality({b \in matching : Newer(b, page[i].id)})
                    <= ret.offset + i - 1
              /\ Cardinality({b \in matching : ~Newer(page[i].id, b)})
                    >= ret.offset + i
        /\ \A i, k \in DOMAIN page :
              i < k => (page[i].id /= page[k].id /\ ~Newer(page[k].id, page[i].id))

\* C35: list_batches(status_filter, limit, offset) returns only batches whose
\* status is the filter (all batches without a filter), newest created_at
\* first, at most limit of them from position offset on, with total_count the
\* number of matching batches and has_more true exactly when
\* offset + limit < total_count.
C35_ListBatchesPage ==
    [][list_ret' /= list_ret =>
          PageOf(list_ret'[1].ret, batch_requests, list_ret'[1].status)]_allvars

\* the second page of one batch, of two batches created on different days:
\* it holds the older batch
C35_Witness ==
    /\ list_ret /= <<>>
    /\ list_ret[1].status = None
    /\ list_ret[1].ret.offset = 1
    /\ list_ret[1].ret.limit = 1
    /\ list_ret[1].ret.total_count = 2
    /\ ~list_ret[1].ret.has_more
    /\ Len(list_ret[1].ret.batches) = 1
    /\ list_ret[1].ret.batches[1].id = 1
    /\ list_ret[1].ret.batches[1].created_at[2] = 0
    /\ DOMAIN batch_requests = {1, 2}
    /\ batch_requests[2].created_at[1] = MaxDays

(* ---------------------------------------------------- terminal batch status *)
\* C36: the status of a batch is stable once terminal: no step changes the
\* status of a batch that is Completed, Failed or Cancelled (cancel_batch does
\* not turn a Completed batch into a Cancelled one, and a job that finishes
\* does not turn a Cancelled batch into a Completed or Failed one).
C36_TerminalBatchStatusStable ==
    [][\A b \in DOMAIN batch_requests :
          (/\ batch_requests[b].status \in {COMPLETED, FAILED, CANCELLED}
           /\ b \in DOMAIN batch_requests')
          => batch_requests'[b].status = batch_requests[b].status]_allvars

(* ---------------------------------------------------------- active_workers *)
\* C37: the active_workers statistic that get_service_stats returns is the
\* number of jobs whose status is Processing at the moment of the call.
C37_ActiveWorkersIsProcessingJobs ==
    [][stats_ret' /= stats_ret =>
          stats_ret'[1].active_workers = Cardinality(ProcessingJobs)]_allvars

(* ------------------------------------------------------ the job statistics *)
\* the jobs that reached Completed: job.result is set on completion only
ReachedCompleted == {j \in DOMAIN jobs : jobs[j].result /= None}

\* the jobs that failed for good: job.error is set and no retry is pending
FailedForGood == {j \in DOMAIN jobs : jobs[j].error /= None /\ ~InRetryHandler(j)}

\* C38: within one process lifetime total_jobs_processed is the number of
\* jobs that reached Completed and total_jobs_failed the number of jobs that
\* failed permanently (a failure that is retried is not counted), and
\* get_service_stats returns these two numbers and success_rate =
\* processed / (processed + failed), 0 when both are 0.
C38_JobStatistics ==
    /\ [](/\ stats.total_jobs_processed = Cardinality(ReachedCompleted)
          /\ stats.total_jobs_failed = Cardinality(FailedForGood))
    /\ [][stats_ret' /= stats_ret =>
            LET ret == stats_ret'[1]
                processed == Cardinality(ReachedCompleted)
                failed == Cardinality(FailedForGood)
            IN  /\ ret.total_jobs_processed = processed
                /\ ret.total_jobs_failed = failed
                /\ ret.success_rate = IF processed + failed = 0 THEN <<0, 1>>
                                      ELSE <<processed, processed + failed>>]_allvars

\* get_service_stats has returned one processed and one failed job, a success
\* rate of one half, and the failed job had used up its retries
C38_Witness ==
    /\ stats_ret /= <<>>
    /\ stats_ret[1].total_jobs_processed = 1
    /\ stats_ret[1].total_jobs_failed = 1
    /\ stats_ret[1].success_rate = <<1, 2>>
    /\ \E j \in DOMAIN jobs :
          /\ PermanentlyFailed(j)
          /\ hist.requeues[j] = DefaultMaxRetries
          /\ hist.executions[j] = DefaultMaxRetries + 1

\* the dispatch loops that have been started and have not ended
RunningLoops ==
    (IF wpc = "stopped" THEN 0 ELSE 1)
    + Cardinality(DOMAIN more_loops \ EndedLoops)

\* C39: whatever the sequence of start_processing and stop_processing calls,
\* neither the number of running dispatch loops nor the number of jobs that
\* are Processing at the same time exceeds max_workers
C39_LoopsWithinMaxWorkers ==
    /\ RunningLoops <= max_workers
    /\ Cardinality(ProcessingJobs) <= max_workers

====
